---- MODULE Spec2Model ----
(***************************************************************************)
(* Model of the spreadsheet accumulator (writer.py, table_writer.py), of    *)
(* the batch loops that drive it (app.py, main.py), of the table path of   *)
(* one pair (table_extractor.py), of the completion call with its retries  *)
(* (parser.py), of the OCR polling loop, of the pairing of uploaded files   *)
(* (app.py match_pairs), of the scan of a folder for its two documents     *)
(* (main.py, table_extractor.py), of the split of page texts into chunks   *)
(* (extractor.py) and of the retrieval of chunks for a query (parser.py).  *)
(*                                                                         *)
(* A text is a sequence of tokens.  Identifiers are spelled character by   *)
(* character (<<"F","0","0","1">>), so that formatting and parsing are     *)
(* computed; column labels and extracted field texts are opaque one-token  *)
(* texts.  Python's None is the distinguished value None.                  *)
(***************************************************************************)
EXTENDS Integers, Sequences, FiniteSets, TLC

VARIABLES
    fileExists,   \* os.path.exists(file_path) of the output spreadsheet
    sheetnames,   \* wb.sheetnames of the saved file
    ws,           \* saved cells: sheet name -> sequence of rows, a row a sequence of cells
    lastCall,     \* the accumulator call that ended last (its arguments, outcome, printed id)
    ncalls,       \* number of accumulator calls made (direct-call specification)
    idRows,       \* identifier chain: ws.max_row of the sheet the identifier is read from
    idLast,       \* identifier chain: ws.cell(max_row, 1).value
    idCount,      \* identifier chain: allocations made so far
    idMod,        \* identifier chain: the module whose allocator runs ("writer"/"table_writer")
    prompts,      \* batch: the run_for of each configured extraction task, in order
    idx,          \* batch: number of the pair in process (enumerate(pairs), from 1)
    phase,        \* batch: the phase the pair is about to run ("text"/"table")
    results,      \* batch: what parse_with_llm_openai returned for the pair
    written,      \* batch: the writes that succeeded, in order (pair, call, identifier, row)
    errors,       \* batch: the st.error reports, in order (pair, phase, exception)
    executed,     \* batch: the tasks whose completion call the pair's parse made, in order
    attempt,      \* completion call: the value of the for loop's variable
    rpc,          \* completion call: where the call stands
    backend,      \* completion call: the function called (call_openai/call_groq/call_gemini)
    api_key,      \* completion call: whether os.getenv finds the credential
    sleeps,       \* completion call: the time.sleep durations so far, in order
    failures,     \* completion call: the exceptions of the failed attempts, in order
    raisedError,  \* completion call: the exception that left the function
    opc,          \* OCR: where call_whisperer_and_get_text stands
    statuses,     \* OCR: the statuses whisper_status reported, in order
    naps,         \* OCR: number of time.sleep(5) made
    entry,        \* table path: the entry point that runs it ("app"/"main")
    tpc,          \* table path: the operation the pair's table path is about to run
    fw_pages,     \* table path: table-bearing page indices of the framework document
    spo_pages,    \* table path: table-bearing page indices of the SPO document
    merged_pdf,   \* table path: the pages of the temporary merged document
    tmpExists,    \* table path: whether the merged temporary PDF is on disk
    tlog,         \* table path: the operations run and the reports made, in order
    mpc,          \* main.py: the function in progress ("main"/"main_table"/"done"/"crashed")
    folder,       \* main.py: number of the subfolder the loop is at
    env,          \* main.py: the credential and the prompts file found at run time
    mlog,         \* main.py: the operations run and the exceptions raised, in order
    file_list,    \* pairing: the uploaded files handed to match_pairs
    pairs,        \* pairing: the pairs match_pairs returned
    others,       \* pairing: the unmatched files match_pairs returned
    matched,      \* pairing: whether match_pairs has run
    listing,      \* folder scan: os.listdir(folder_path), the names in the order listed
    finder,       \* folder scan: the function that scanned the folder ("none" before)
    pdf_pair,     \* folder scan: the (framework, spo) it returned
    text,         \* chunk_text: the text to split, a sequence of characters
    chunk_size,   \* chunk_text / extract_chunks_from_two_pdfs: the chunk_size argument
    overlap,      \* chunk_text / extract_chunks_from_two_pdfs: the overlap argument
    ci,           \* chunk_text: the loop variable i, the offset of the next window
    chunks,       \* chunk_text: the list chunks built so far
    starts,       \* chunk_text: the offsets at which a window was cut, in order
    cpc,          \* chunk_text: where the call stands ("none"/"call"/"loop"/"returned")
    documents,    \* extraction: the page texts of the framework and of the SPO document
    role,         \* extraction: the source in process ("framework"/"spo")
    page_no,      \* extraction: idx, the number of the page in process (0 before the first)
    all_chunks,   \* extraction: the list all_chunks built so far
    epc,          \* extraction: where extract_chunks_from_two_pdfs stands
    index_texts,  \* retrieval: index["texts"], each text the set of its terms
    query,        \* retrieval: the terms of the query
    top_k,        \* retrieval: the argument k
    matrix,       \* retrieval: index["matrix"] ("unbuilt"/"None"/"matrix")
    sims,         \* retrieval: the similarity of the query to each text, in levels
    top_idx,      \* retrieval: the list retrieve_top_k returned (indices from 0)
    qpc,          \* retrieval: where the retrieval stands
    content,      \* recovery: the content of the model's response, a text or None
    recoverer,    \* recovery: the function that recovers JSON from it ("none" before)
    recovered,    \* recovery: the value of parsed after the recovery step
    returned,     \* recovery: the value the function goes on with
    jout          \* recovery: how the recovery ended ("none"/"returned"/the exception)

batchVars == <<prompts, idx, phase, results, written, errors, executed>>
idVars == <<idRows, idLast, idCount, idMod>>
fileVars == <<fileExists, sheetnames, ws>>
callVars == <<lastCall, ncalls>>
retryVars == <<attempt, rpc, backend, api_key, sleeps, failures, raisedError>>
ocrVars == <<opc, statuses, naps>>
tableVars == <<entry, tpc, fw_pages, spo_pages, merged_pdf, tmpExists, tlog>>
mainVars == <<mpc, folder, env, mlog>>
pairVars == <<file_list, pairs, others, matched>>
findVars == <<listing, finder, pdf_pair>>
chunkVars == <<text, chunk_size, overlap, ci, chunks, starts, cpc>>
extractVars == <<documents, role, page_no, all_chunks, epc>>
indexVars == <<index_texts, query, top_k, matrix, sims, top_idx, qpc>>
recoverVars == <<content, recoverer, recovered, returned, jout>>
funVars == <<findVars, chunkVars, extractVars, indexVars, recoverVars>>
vars == <<fileVars, callVars, idVars, batchVars, retryVars, ocrVars, tableVars, mainVars,
          pairVars, funVars>>

---------------------------------------------------------------------------
(* Bounds *)

MaxCalls == 3
NumPairs == 2
MaxAlloc == 1001
MaxPolls == 6
MaxPage == 2
NumFolders == 2
MaxFiles == 4
MaxListing == 3
MaxLen == 4
MaxChunk == 3
MaxWindows == 5
MaxDocPages == 2
MaxTexts == 3
MaxK == 3
MaxSim == 2
MaxTokens == 5

---------------------------------------------------------------------------
(* Values *)

None == <<"<None>">>
EmptyStr == <<>>
UNKNOWN == <<"U", "N", "K", "N", "O", "W", "N">>
Digits == <<"0", "1", "2", "3", "4", "5", "6", "7", "8", "9">>
DigitSet == {Digits[i] : i \in 1..10}

DigitChar(d) == Digits[d + 1]
DigitVal(c) == CHOOSE d \in 0..9 : Digits[d + 1] = c

\* str(n) for n >= 0
RECURSIVE DecimalDigits(_)
DecimalDigits(n) ==
    IF n < 10 THEN <<DigitChar(n)>>
    ELSE Append(DecimalDigits(n \div 10), DigitChar(n % 10))

\* left-pad with "0" up to a minimum width: a longer text is left as it is
RECURSIVE ZeroPad(_, _)
ZeroPad(s, width) == IF Len(s) >= width THEN s ELSE ZeroPad(<<"0">> \o s, width)

IdWidth == 3

\* f"F{number:03d}"
FormatId(number) == <<"F">> \o ZeroPad(DecimalDigits(number), IdWidth)

\* int(text) for a text of ASCII digits; ValueErr for the empty text and for any
\* other character (signs, blanks and underscores do not occur in the sheets)
ValueErr == -1
RECURSIVE DigitsValue(_)
DigitsValue(s) ==
    IF Len(s) = 0 THEN 0
    ELSE 10 * DigitsValue(SubSeq(s, 1, Len(s) - 1)) + DigitVal(s[Len(s)])

ParseInt(s) ==
    IF Len(s) > 0 /\ \A i \in 1..Len(s) : s[i] \in DigitSet
    THEN DigitsValue(s) ELSE ValueErr

Tail1(s) == SubSeq(s, 2, Len(s))

\* Python truthiness of a cell value: None and "" are falsy
Falsy(v) == v = None \/ v = EmptyStr

StartsWithF(v) == Len(v) > 0 /\ v[1] = "F"

---------------------------------------------------------------------------
(* _get_next_framework_id, as a function of what it reads from the sheet:  *)
(* ws.max_row and ws.cell(row=max_row, column=1).value.  The result is     *)
(* [raised, id].                                                           *)

Ok(id) == [raised |-> "none", id |-> id]
Raise(e) == [raised |-> e, id |-> None]

NextIdSameNumber(max_row, last_id) ==
    IF max_row < 2 THEN Ok(FormatId(1))
    ELSE IF Falsy(last_id) \/ ~StartsWithF(last_id) THEN Ok(FormatId(1))
    ELSE IF ParseInt(Tail1(last_id)) = ValueErr THEN Raise("ValueError")
    ELSE Ok(FormatId(ParseInt(Tail1(last_id))))

NextIdNoPad(max_row, last_id) ==
    IF max_row < 2 THEN Ok(<<"F">> \o DecimalDigits(1))
    ELSE IF Falsy(last_id) \/ ~StartsWithF(last_id) THEN Ok(<<"F">> \o DecimalDigits(1))
    ELSE IF ParseInt(Tail1(last_id)) = ValueErr THEN Raise("ValueError")
    ELSE Ok(<<"F">> \o DecimalDigits(ParseInt(Tail1(last_id)) + 1))

get_next_framework_id(max_row, last_id) ==
    IF max_row < 2 THEN Ok(FormatId(1))
    ELSE IF Falsy(last_id) \/ ~StartsWithF(last_id) THEN Ok(FormatId(1))
    ELSE IF ParseInt(Tail1(last_id)) = ValueErr THEN Raise("ValueError")
    ELSE Ok(FormatId(ParseInt(Tail1(last_id)) + 1))

\* table_writer.py has its own copy of the allocator
table_get_next_framework_id(max_row, last_id) ==
    IF max_row < 2 THEN Ok(FormatId(1))
    ELSE IF Falsy(last_id) \/ ~StartsWithF(last_id) THEN Ok(FormatId(1))
    ELSE IF ParseInt(Tail1(last_id)) = ValueErr THEN Raise("ValueError")
    ELSE Ok(FormatId(ParseInt(Tail1(last_id)) + 1))

---------------------------------------------------------------------------
(* The workbook: sheets, rows and cells as openpyxl presents them *)

FO == "Framework Overview"
GOV == "Governance"
SPO == "SPO Summary"
ELIG == "Eligibility+EU Tax"
SDG == "SDG"
AllSheets == {FO, GOV, SPO, ELIG, SDG}

H_FrameworkID == <<"F", "r", "a", "m", "e", "w", "o", "r", "k", " ", "I", "D">>

OverviewHeader ==
    <<H_FrameworkID, <<"Issuer">>, <<"Framework Name">>, <<"SPO Provider">>,
      <<"Alignment">>, <<"Year">>, <<"SPO Date">>, <<"Framework Source">>>>
GovernanceHeader ==
    <<H_FrameworkID, <<"Exclusion Criteria">>, <<"Impact Reporting">>,
      <<"External Verification">>>>
SummaryHeader == <<H_FrameworkID, <<"Summary">>>>
eligibility_headers ==
    <<H_FrameworkID, <<"Use of Proceeds">>, <<"Eligibility Criteria">>,
      <<"SPO Evaluation">>, <<"EU Taxonomy Alignment">>, <<"DNSH">>,
      <<"Minimum Safeguards">>, <<"EU Taxonomy and Economic Activities">>>>
sdg_headers == <<H_FrameworkID, <<"Use of Proceeds">>, <<"SDG">>>>

HeaderOf(name) ==
    CASE name = FO -> OverviewHeader
      [] name = GOV -> GovernanceHeader
      [] name = SPO -> SummaryHeader
      [] name = ELIG -> eligibility_headers
      [] name = SDG -> sdg_headers

NoSheets == [n \in AllSheets |-> <<>>]

\* a row without cells is an empty row
RowEmpty(row) == \A c \in 1..Len(row) : row[c] = None

\* ws.max_row: the highest row that holds a cell, 1 for a sheet without cells
MaxRow(rows) ==
    LET used == {r \in 1..Len(rows) : ~RowEmpty(rows[r])}
    IN  IF used = {} THEN 1 ELSE CHOOSE r \in used : \A q \in used : q <= r

\* ws.cell(row, column).value
CellValue(rows, r, c) ==
    IF r <= Len(rows) /\ c <= Len(rows[r]) THEN rows[r][c] ELSE None

\* ws.append(row) on a sheet created in this call: the first append is row 1
AppendNew(rows, row) == Append(rows, row)

\* ws.append(row) on a loaded sheet: the row after max_row, which is row 2 for a
\* loaded sheet without cells
AppendLoaded(rows, row) ==
    LET at == MaxRow(rows) + 1
    IN  [r \in 1..at |-> IF r = at THEN row ELSE IF r <= Len(rows) THEN rows[r] ELSE <<>>]

\* ws.cell(row, column, value=v): openpyxl assigns only a value that is not None
SetCell(rows, r, c, v) ==
    IF v = None THEN rows
    ELSE [rows EXCEPT ![r] =
            [k \in 1..(IF Len(@) < c THEN c ELSE Len(@)) |->
                IF k = c THEN v ELSE IF k <= Len(@) THEN @[k] ELSE None]]

\* a JSON array or object as a cell value: openpyxl raises ValueError
ListVal == <<"<list>">>
Unwritable(row) == \E c \in 1..Len(row) : row[c] = ListVal

\* dict.get(key, default)
Get(d, key, default) == IF key \in DOMAIN d THEN d[key] ELSE default

---------------------------------------------------------------------------
(* writer.py *)

\* outcome of a call: the saved file afterwards, the exception, the identifier
Outcome(exists, names, cells, raised, id) ==
    [fileExists |-> exists, sheetnames |-> names, ws |-> cells,
     raised |-> raised, framework_id |-> id]

\* the saved file: whether it exists, its sheets and their cells
FileOf(exists, names, cells) == [fileExists |-> exists, sheetnames |-> names, ws |-> cells]

\* _init_workbook of writer.py: the file after it
writer_init_workbook(file) ==
    IF file.fileExists
    THEN [fileExists |-> TRUE, sheetnames |-> file.sheetnames, ws |-> file.ws]
    ELSE [fileExists |-> TRUE, sheetnames |-> {FO, GOV, SPO},
          ws |-> [NoSheets EXCEPT ![FO] = AppendNew(<<>>, OverviewHeader),
                                  ![GOV] = AppendNew(<<>>, GovernanceHeader),
                                  ![SPO] = AppendNew(<<>>, SummaryHeader)]]

OverviewRow(framework_id, json_data) ==
    <<framework_id, Get(json_data, "Issuer", EmptyStr),
      Get(json_data, "Framework Name", EmptyStr),
      Get(json_data, "SPO Provider", EmptyStr),
      Get(json_data, "Alignment", EmptyStr),
      Get(json_data, "Year", EmptyStr),
      Get(json_data, "SPO Date", EmptyStr),
      Get(json_data, "Framework Source", EmptyStr)>>

GovernanceRow(framework_id, json_data) ==
    <<framework_id, Get(json_data, "Exclusion Criteria", EmptyStr),
      Get(json_data, "Impact Reporting", EmptyStr),
      Get(json_data, "External Verification", EmptyStr)>>

SummaryRow(framework_id, json_data) ==
    <<framework_id, Get(json_data, "Summary", EmptyStr)>>

\* lines 63-74 without the test for a sheet that has no data row
framework_id_of_last_row(ws1, run_for) ==
    IF run_for = "framework"
    THEN get_next_framework_id(MaxRow(ws1), CellValue(ws1, MaxRow(ws1), 1))
    ELSE Ok(CellValue(ws1, MaxRow(ws1), 1))

\* "Determine Framework ID": a new identifier for a Framework result, else the
\* identifier of the last Overview row, UNKNOWN when there is no data row
determine_framework_id(ws1, run_for) ==
    IF run_for = "framework"
    THEN get_next_framework_id(MaxRow(ws1), CellValue(ws1, MaxRow(ws1), 1))
    ELSE IF MaxRow(ws1) < 2 THEN Ok(UNKNOWN)
    ELSE Ok(CellValue(ws1, MaxRow(ws1), 1))

\* "Update the last framework row in Framework Overview": columns 4 and 7
update_last_framework_row(ws1, json_data) ==
    IF MaxRow(ws1) >= 2
    THEN SetCell(SetCell(ws1, MaxRow(ws1), 4, Get(json_data, "SPO Provider", EmptyStr)),
                 MaxRow(ws1), 7, Get(json_data, "SPO Date", EmptyStr))
    ELSE ws1

write_to_excel(file, json_data, run_for) ==
    LET wb == writer_init_workbook(file)
        ws1 == wb.ws[FO]
        failed(e) == Outcome(wb.fileExists, wb.sheetnames, wb.ws, e, None)
        alloc == determine_framework_id(ws1, run_for)
        framework_id == alloc.id
        provider == Get(json_data, "SPO Provider", EmptyStr)
        date == Get(json_data, "SPO Date", EmptyStr)
    IN  IF FO \notin wb.sheetnames THEN failed("KeyError")
        ELSE IF alloc.raised # "none" THEN failed(alloc.raised)
        ELSE IF run_for = "framework"
        THEN IF Unwritable(OverviewRow(framework_id, json_data))
                \/ Unwritable(GovernanceRow(framework_id, json_data))
             THEN failed("ValueError")
             ELSE IF GOV \notin wb.sheetnames THEN failed("KeyError")
             ELSE Outcome(TRUE, wb.sheetnames,
                    [wb.ws EXCEPT
                        ![FO] = AppendLoaded(@, OverviewRow(framework_id, json_data)),
                        ![GOV] = AppendLoaded(@, GovernanceRow(framework_id, json_data))],
                    "none", framework_id)
        ELSE IF run_for = "spo"
        THEN IF MaxRow(ws1) >= 2 /\ (provider = ListVal \/ date = ListVal)
             THEN failed("ValueError")
             ELSE IF SPO \notin wb.sheetnames THEN failed("KeyError")
             ELSE IF Unwritable(SummaryRow(framework_id, json_data))
             THEN failed("ValueError")
             ELSE Outcome(TRUE, wb.sheetnames,
                    [wb.ws EXCEPT
                        ![FO] = update_last_framework_row(@, json_data),
                        ![SPO] = AppendLoaded(@, SummaryRow(framework_id, json_data))],
                    "none", framework_id)
        ELSE Outcome(TRUE, wb.sheetnames, wb.ws, "none", framework_id)

---------------------------------------------------------------------------
(* table_writer.py *)

FirstRowEmpty(rows) == Len(rows) = 0 \/ RowEmpty(rows[1])

\* one sheet of _init_workbook's loop over an existing file
EnsureHeaderAlways(names, rows, sheet_name) == AppendLoaded(rows, HeaderOf(sheet_name))

EnsureHeader(names, rows, sheet_name) ==
    IF sheet_name \notin names THEN AppendNew(<<>>, HeaderOf(sheet_name))
    ELSE IF FirstRowEmpty(rows) THEN AppendLoaded(rows, HeaderOf(sheet_name))
    ELSE rows

\* _init_workbook of table_writer.py: the file after it
table_init_workbook(file) ==
    IF ~file.fileExists
    THEN [fileExists |-> TRUE, sheetnames |-> {ELIG, SDG},
          ws |-> [NoSheets EXCEPT ![ELIG] = AppendNew(<<>>, eligibility_headers),
                                  ![SDG] = AppendNew(<<>>, sdg_headers)]]
    ELSE [fileExists |-> TRUE, sheetnames |-> file.sheetnames \cup {ELIG, SDG},
          ws |-> [file.ws EXCEPT ![ELIG] = EnsureHeader(file.sheetnames, @, ELIG),
                                 ![SDG] = EnsureHeader(file.sheetnames, @, SDG)]]

\* the value of "Use_of_Proceeds" in the parsed answer: a JSON array of entries,
\* or JSON null, over which the for loop raises TypeError
JArray(items) == [kind |-> "array", items |-> items]
JNull == [kind |-> "null", items |-> <<>>]

\* ", ".join(sdgs) if sdgs else ""
RECURSIVE JoinSdgs(_)
JoinSdgs(sdgs) ==
    IF Len(sdgs) = 0 THEN EmptyStr
    ELSE IF Len(sdgs) = 1 THEN sdgs[1]
    ELSE sdgs[1] \o <<", ">> \o JoinSdgs(Tail(sdgs))

EligRow(framework_id, name, e) ==
    <<framework_id, name, Get(e, "Description", EmptyStr),
      Get(e, "SPO_Evaluation", EmptyStr), Get(e, "EU_Taxonomy_Alignment", EmptyStr),
      Get(e, "DNSH", EmptyStr), Get(e, "Minimum_Safeguards", EmptyStr),
      Get(e, "EU_Taxonomy_Economic_Activity", EmptyStr)>>

SdgRow(framework_id, uop) ==
    <<framework_id, Get(uop, "Name", EmptyStr), JoinSdgs(Get(uop, "SDGs", <<>>))>>

\* an entry that gives a row for its first criterion only
FirstCriterionOnly(framework_id, uop) ==
    LET elig_list == Get(uop, "Eligibility_Criteria", <<>>)
    IN  IF Len(elig_list) = 0 THEN <<>>
        ELSE <<EligRow(framework_id, Get(uop, "Name", EmptyStr), elig_list[1])>>

EligRowsOf(framework_id, uop) ==
    LET elig_list == Get(uop, "Eligibility_Criteria", <<>>)
    IN  [i \in 1..Len(elig_list) |->
            EligRow(framework_id, Get(uop, "Name", EmptyStr), elig_list[i])]

RECURSIVE eligibility_rows(_, _)
eligibility_rows(framework_id, use_of_proceeds) ==
    IF Len(use_of_proceeds) = 0 THEN <<>>
    ELSE EligRowsOf(framework_id, use_of_proceeds[1])
         \o eligibility_rows(framework_id, Tail(use_of_proceeds))

sdg_rows(framework_id, use_of_proceeds) ==
    [i \in 1..Len(use_of_proceeds) |-> SdgRow(framework_id, use_of_proceeds[i])]

\* len(pd.read_excel(file, sheet_name)): the rows below the first row, which
\* pandas takes as the column labels
ReadExcelLen(rows) == IF \A r \in 1..Len(rows) : RowEmpty(rows[r]) THEN 0 ELSE MaxRow(rows) - 1

\* pandas writes a missing value (None) as the empty text
PandasRow(row) == [c \in 1..Len(row) |-> IF row[c] = None THEN EmptyStr ELSE row[c]]

\* rows of a frame laid over a sheet from sheet row first on, over whatever is there
Overlay(rows, df, first) ==
    LET last == IF Len(df) = 0 THEN Len(rows)
                ELSE IF first - 1 + Len(df) > Len(rows) THEN first - 1 + Len(df)
                ELSE Len(rows)
    IN  [r \in 1..last |->
            IF r >= first /\ r < first + Len(df) THEN PandasRow(df[r - first + 1])
            ELSE IF r <= Len(rows) THEN rows[r] ELSE <<>>]

\* to_excel with the frame's first row on sheet row startrow (the 0-based startrow
\* taken as a 1-based row)
ToExcelOneRowUp(rows, df, startrow) == Overlay(rows, df, startrow)

\* df.to_excel(writer, header=False, index=False, startrow=startrow) with
\* if_sheet_exists="overlay": startrow counts from 0, so frame row i (from 0) lands
\* on sheet row startrow + 1 + i
ToExcel(rows, df, startrow) == Overlay(rows, df, startrow + 1)

\* a text with a character no worksheet cell accepts (a control character):
\* openpyxl raises IllegalCharacterError when the cell is assigned
IllegalText == <<"<illegal>">>
HasIllegal(df) == \E r \in 1..Len(df) : \E c \in 1..Len(df[r]) : df[r][c] = IllegalText

\* to_excel writes a frame's cells column after column, each column from its
\* first row down: the cells written before the first one that raises
WrittenBefore(df) ==
    LET bad(c) == {r \in 1..Len(df) : c <= Len(df[r]) /\ df[r][c] = IllegalText}
        fc == CHOOSE c \in 1..Len(df[1]) :
                  bad(c) # {} /\ \A d \in 1..(c - 1) : bad(d) = {}
        fr == CHOOSE r \in bad(fc) : \A q \in bad(fc) : r <= q
    IN  [r \in 1..Len(df) |-> SubSeq(df[r], 1, IF r < fr THEN fc ELSE fc - 1)]

writer_to_excel_table(file, answer) ==
    LET wb == table_init_workbook(file)
        ws_elig == wb.ws[ELIG]
        failed(e) == Outcome(wb.fileExists, wb.sheetnames, wb.ws, e, None)
        alloc == table_get_next_framework_id(MaxRow(ws_elig),
                                             CellValue(ws_elig, MaxRow(ws_elig), 1))
        framework_id == alloc.id
        use_of_proceeds == Get(answer, "Use_of_Proceeds", JArray(<<>>))
        df_elig == eligibility_rows(framework_id, use_of_proceeds.items)
        df_sdg == sdg_rows(framework_id, use_of_proceeds.items)
    IN  IF alloc.raised # "none" THEN failed(alloc.raised)
        ELSE IF use_of_proceeds.kind = "null" THEN failed("TypeError")
        ELSE IF HasIllegal(df_elig)
        THEN \* to_excel raises in the with block, whose exit saves the workbook
             Outcome(TRUE, wb.sheetnames,
                [wb.ws EXCEPT
                    ![ELIG] = ToExcel(@, WrittenBefore(df_elig), ReadExcelLen(@) + 1)],
                "IllegalCharacterError", None)
        ELSE IF HasIllegal(df_sdg)
        THEN Outcome(TRUE, wb.sheetnames,
                [wb.ws EXCEPT
                    ![ELIG] = ToExcel(@, df_elig, ReadExcelLen(@) + 1),
                    ![SDG] = ToExcel(@, WrittenBefore(df_sdg), ReadExcelLen(@) + 1)],
                "IllegalCharacterError", None)
        ELSE Outcome(TRUE, wb.sheetnames,
                [wb.ws EXCEPT
                    ![ELIG] = ToExcel(@, df_elig, ReadExcelLen(@) + 1),
                    ![SDG] = ToExcel(@, df_sdg, ReadExcelLen(@) + 1)],
                "none", framework_id)

---------------------------------------------------------------------------
(* Inputs: parsed results handed to the accumulator *)

\* results of the text tasks (the "result" of parse_with_llm_openai's entries)
J_fw ==
    ("Issuer" :> <<"i">>) @@ ("Framework Name" :> <<"n">>) @@ ("SPO Provider" :> <<"p1">>)
    @@ ("Alignment" :> <<"al">>) @@ ("Year" :> <<"y">>) @@ ("SPO Date" :> <<"d1">>)
    @@ ("Framework Source" :> <<"s">>) @@ ("Exclusion Criteria" :> <<"x">>)
    @@ ("Impact Reporting" :> <<"r">>) @@ ("External Verification" :> <<"v">>)
J_spo == ("SPO Provider" :> <<"p2">>) @@ ("SPO Date" :> <<"d2">>) @@ ("Summary" :> <<"sum">>)
J_raw == ("_raw" :> <<"t">>)
J_null ==
    ("Issuer" :> None) @@ ("SPO Provider" :> None) @@ ("SPO Date" :> <<"d3">>)
    @@ ("Summary" :> None)
J_list == ("Alignment" :> ListVal) @@ ("SPO Provider" :> ListVal) @@ ("Summary" :> ListVal)

JsonSamples == <<J_fw, J_spo, J_raw, J_null, J_list>>
RunFors == {"framework", "spo", "both"}

\* results of the table task (parser_for_table)
Crit(d) == ("Description" :> <<d>>) @@ ("SPO_Evaluation" :> <<"ev">>) @@ ("DNSH" :> None)
Uop(name, sdgs, crits) ==
    ("Name" :> <<name>>) @@ ("SDGs" :> sdgs) @@ ("Eligibility_Criteria" :> crits)

T_raw == ("_raw" :> JArray(<<>>))
T_none == ("Use_of_Proceeds" :> JArray(<<>>))
T_nocrit == ("Use_of_Proceeds" :> JArray(<<Uop("u1", <<<<"SDG 7">>>>, <<>>)>>))
T_one == ("Use_of_Proceeds" :> JArray(<<Uop("u1", <<>>, <<Crit("c1")>>)>>))
T_two ==
    ("Use_of_Proceeds" :>
        JArray(<<Uop("u1", <<<<"SDG 7">>, <<"SDG 13">>>>, <<Crit("c1"), Crit("c2")>>),
                 Uop("u2", <<>>, <<>>)>>))
T_null == ("Use_of_Proceeds" :> JNull)
T_illegal ==
    ("Use_of_Proceeds" :>
        JArray(<<Uop("u1", <<>>,
                     <<Crit("c1"), [Crit("c2") EXCEPT !["Description"] = IllegalText]>>)>>))

TableSamples == <<T_raw, T_none, T_nocrit, T_one, T_two, T_null, T_illegal>>

---------------------------------------------------------------------------
(* Direct calls of the two accumulators on one output file, in any order *)

File == FileOf(fileExists, sheetnames, ws)

\* the parts of the state a specification does not use stay as they start
auxVars == <<retryVars, ocrVars, tableVars, mainVars, pairVars, funVars>>
RetryIdle ==
    /\ attempt = 0 /\ rpc = "none" /\ backend = "none" /\ api_key = FALSE
    /\ sleeps = <<>> /\ failures = <<>> /\ raisedError = "none"
OcrIdle == opc = "none" /\ statuses = <<>> /\ naps = 0
TableIdle ==
    /\ entry = "none" /\ tpc = "none" /\ fw_pages = <<>> /\ spo_pages = <<>>
    /\ merged_pdf = <<>> /\ tmpExists = FALSE /\ tlog = <<>>
MainIdle == mpc = "none" /\ folder = 0 /\ env = <<>> /\ mlog = <<>>
PairIdle == file_list = <<>> /\ pairs = <<>> /\ others = <<>> /\ matched = FALSE
FindIdle == listing = <<>> /\ finder = "none" /\ pdf_pair = [framework |-> None, spo |-> None]
ChunkIdle ==
    /\ text = <<>> /\ chunk_size = 0 /\ overlap = 0 /\ ci = 0 /\ chunks = <<>>
    /\ starts = <<>> /\ cpc = "none"
ExtractIdle ==
    /\ documents = <<>> /\ role = "none" /\ page_no = 0 /\ all_chunks = <<>> /\ epc = "none"
IndexIdle ==
    /\ index_texts = <<>> /\ query = {} /\ top_k = 0 /\ matrix = "none" /\ sims = <<>>
    /\ top_idx = <<>> /\ qpc = "none"
RecoverIdle ==
    /\ content = <<>> /\ recoverer = "none" /\ recovered = None /\ returned = None
    /\ jout = "none"
FunIdle == FindIdle /\ ChunkIdle /\ ExtractIdle /\ IndexIdle /\ RecoverIdle
FileIdle == fileExists = FALSE /\ sheetnames = {} /\ ws = NoSheets
NoCall == [fn |-> "none", run_for |-> "", arg |-> 0, raised |-> "none", framework_id |-> None]
CallIdle == lastCall = NoCall /\ ncalls = 0


IdChainIdle == idRows = 1 /\ idLast = None /\ idCount = 0 /\ idMod = "writer"
BatchIdle ==
    /\ prompts = <<>>
    /\ idx = 0
    /\ phase = "none"
    /\ results = <<>>
    /\ written = <<>>
    /\ errors = <<>>
    /\ executed = <<>>

CallsInit ==
    /\ fileExists = FALSE
    /\ sheetnames = {}
    /\ ws = NoSheets
    /\ lastCall = NoCall
    /\ ncalls = 0
    /\ IdChainIdle
    /\ BatchIdle
    /\ RetryIdle /\ OcrIdle /\ TableIdle /\ MainIdle /\ PairIdle /\ FunIdle

CallWriteToExcel ==
    /\ ncalls < MaxCalls
    /\ \E j \in 1..Len(JsonSamples), run_for \in RunFors :
        LET out == write_to_excel(File, JsonSamples[j], run_for)
        IN  /\ fileExists' = out.fileExists
            /\ sheetnames' = out.sheetnames
            /\ ws' = out.ws
            /\ lastCall' = [fn |-> "write_to_excel", run_for |-> run_for, arg |-> j,
                            raised |-> out.raised, framework_id |-> out.framework_id]
    /\ ncalls' = ncalls + 1
    /\ UNCHANGED <<idVars, batchVars, auxVars>>

CallWriterToExcelTable ==
    /\ ncalls < MaxCalls
    /\ \E j \in 1..Len(TableSamples) :
        LET out == writer_to_excel_table(File, TableSamples[j])
        IN  /\ fileExists' = out.fileExists
            /\ sheetnames' = out.sheetnames
            /\ ws' = out.ws
            /\ lastCall' = [fn |-> "writer_to_excel_table", run_for |-> "", arg |-> j,
                            raised |-> out.raised, framework_id |-> out.framework_id]
    /\ ncalls' = ncalls + 1
    /\ UNCHANGED <<idVars, batchVars, auxVars>>

CallsNext == CallWriteToExcel \/ CallWriterToExcelTable

SpecCalls == CallsInit /\ [][CallsNext]_vars

---------------------------------------------------------------------------
(* The identifier chain: allocation after allocation in one namespace, each   *)
(* allocated identifier written to column 1 of the row appended to the sheet  *)

IdsInit ==
    /\ fileExists = FALSE
    /\ sheetnames = {}
    /\ ws = NoSheets
    /\ lastCall = NoCall
    /\ ncalls = 0
    /\ idRows = 1
    /\ idLast = None
    /\ idCount = 0
    /\ idMod \in {"writer", "table_writer"}
    /\ BatchIdle
    /\ RetryIdle /\ OcrIdle /\ TableIdle /\ MainIdle /\ PairIdle /\ FunIdle

Allocate ==
    /\ idCount < MaxAlloc
    /\ LET r == IF idMod = "writer" THEN get_next_framework_id(idRows, idLast)
                ELSE table_get_next_framework_id(idRows, idLast)
       IN  /\ r.raised = "none"
           /\ idLast' = r.id
    /\ idRows' = idRows + 1
    /\ idCount' = idCount + 1
    /\ UNCHANGED <<fileExists, sheetnames, ws, lastCall, ncalls, idMod, batchVars, auxVars>>

IdsNext == Allocate

SpecIds == IdsInit /\ [][IdsNext]_vars

---------------------------------------------------------------------------
(* app.py: the batch loop over the pairs, the text phase then the table phase *)

\* the task lists the prompts file may configure
PromptLists == {<<"framework", "spo">>, <<"spo", "framework">>, <<"framework", "both">>}

\* what one task's completion and JSON recovery give: a JSON object (a sample),
\* a JSON value that is no object, or an exception after the retries
Obj(j) == [kind |-> "object", sample |-> j]
NonObject == [kind |-> "nonobject", sample |-> 0]
Failed == [kind |-> "failed", sample |-> 0]
TaskOutcomes(run_for) ==
    {Obj(IF run_for = "framework" THEN 1 ELSE IF run_for = "spo" THEN 2 ELSE 3),
     Obj(4), NonObject, Failed}

\* the row of 'Framework Overview' a successful write touched: the appended row
\* of a Framework write, the overwritten row of an SPO write, 0 for none
TouchedRow(before, after, run_for) ==
    IF run_for = "framework" THEN MaxRow(after.ws[FO])
    ELSE IF run_for = "spo" /\ MaxRow(before.ws[FO]) >= 2 THEN MaxRow(before.ws[FO])
    ELSE 0

\* for r in results: if run_for and isinstance(json_result, dict): write_to_excel(...)
\* the loop from entry i on: [file, written, raised]
FrameworkResultsOnly(r) == r.run_for = "framework" /\ r.result.kind = "object"

\* if run_for and isinstance(json_result, dict)
PassesTest(r) == r.run_for # "" /\ r.result.kind = "object"

RECURSIVE WriteResults(_, _, _, _, _)
WriteResults(file, rs, i, log, pair) ==
    IF i > Len(rs) THEN [file |-> file, written |-> log, raised |-> "none"]
    ELSE IF PassesTest(rs[i])
    THEN LET out == write_to_excel(file, JsonSamples[rs[i].result.sample], rs[i].run_for)
             saved == FileOf(out.fileExists, out.sheetnames, out.ws)
         IN  IF out.raised # "none"
             THEN [file |-> saved, written |-> log, raised |-> out.raised]
             ELSE WriteResults(saved, rs, i + 1,
                    Append(log, [pair |-> pair, fn |-> "write_to_excel",
                                 run_for |-> rs[i].run_for,
                                 framework_id |-> out.framework_id,
                                 row |-> TouchedRow(file, saved, rs[i].run_for)]),
                    pair)
    ELSE WriteResults(file, rs, i + 1, log, pair)

\* parse_with_llm_openai's loop over the prompts: the tasks whose completion call
\* was made, with what it gave; the first call that raises ends the loop
ExecutedTasks(outs) ==
    LET failing == {i \in 1..Len(outs) : outs[i].kind = "failed"}
        last == IF failing = {} THEN Len(outs)
                ELSE CHOOSE i \in failing : \A k \in failing : i <= k
    IN  [i \in 1..last |-> [task |-> i, kind |-> outs[i].kind]]

BatchInit ==
    /\ fileExists = FALSE
    /\ sheetnames = {}
    /\ ws = NoSheets
    /\ lastCall = NoCall
    /\ ncalls = 0
    /\ IdChainIdle
    /\ prompts \in PromptLists
    /\ idx = 1
    /\ phase = "text"
    /\ results = <<>>
    /\ written = <<>>
    /\ errors = <<>>
    /\ executed = <<>>
    /\ RetryIdle /\ OcrIdle /\ TableIdle /\ MainIdle /\ PairIdle /\ FunIdle

\* PHASE 1 of one pair: chunks, parse, the write loop; any exception is reported
TextPhase ==
    /\ idx <= NumPairs
    /\ phase = "text"
    /\ \E outs \in [1..Len(prompts) -> UNION {TaskOutcomes(r) : r \in {"framework", "spo", "both"}}] :
        /\ \A i \in 1..Len(prompts) : outs[i] \in TaskOutcomes(prompts[i])
        /\ executed' = ExecutedTasks(outs)
        /\ IF \E i \in 1..Len(prompts) : outs[i].kind = "failed"
           THEN /\ errors' = Append(errors, [pair |-> idx, phase |-> "text", e |-> "APIError"])
                /\ UNCHANGED <<fileExists, sheetnames, ws, results, written>>
           ELSE LET rs == [i \in 1..Len(prompts) |->
                            [run_for |-> prompts[i], result |-> outs[i]]]
                    w == WriteResults(File, rs, 1, written, idx)
                IN  /\ results' = rs
                    /\ fileExists' = w.file.fileExists
                    /\ sheetnames' = w.file.sheetnames
                    /\ ws' = w.file.ws
                    /\ written' = w.written
                    /\ errors' = IF w.raised = "none" THEN errors
                                 ELSE Append(errors, [pair |-> idx, phase |-> "text",
                                                      e |-> w.raised])
    /\ phase' = "table"
    /\ UNCHANGED <<lastCall, ncalls, idVars, prompts, idx, auxVars>>

\* PHASE 2 of one pair: merged table pages, OCR, table parse, table write
TablePhase ==
    /\ idx <= NumPairs
    /\ phase = "table"
    /\ \/ \* write_temp_merged_pdf returned None: nothing to process
          UNCHANGED <<fileExists, sheetnames, ws, written, errors>>
       \/ \* the merge, the OCR service or the table parser raised
          /\ errors' = Append(errors, [pair |-> idx, phase |-> "table", e |-> "Exception"])
          /\ UNCHANGED <<fileExists, sheetnames, ws, written>>
       \/ \E j \in {3, 4} :
            LET out == writer_to_excel_table(File, TableSamples[j])
            IN  /\ fileExists' = out.fileExists
                /\ sheetnames' = out.sheetnames
                /\ ws' = out.ws
                /\ written' = IF out.raised # "none" THEN written
                              ELSE Append(written,
                                     [pair |-> idx, fn |-> "writer_to_excel_table",
                                      run_for |-> "", framework_id |-> out.framework_id,
                                      row |-> 0])
                /\ errors' = IF out.raised = "none" THEN errors
                             ELSE Append(errors, [pair |-> idx, phase |-> "table",
                                                  e |-> out.raised])
    /\ phase' = "text"
    /\ idx' = idx + 1
    /\ UNCHANGED <<lastCall, ncalls, idVars, prompts, results, executed, auxVars>>

Next == TextPhase \/ TablePhase

Init == BatchInit

Spec == Init /\ [][Next]_vars

---------------------------------------------------------------------------
(* parser.py: call_openai, call_groq, call_gemini, one completion call with its *)
(* retries; the three functions have the same loop                           *)

Backends == {"call_openai", "call_groq", "call_gemini"}

\* the default of the parameter max_retries
max_retries == 3

\* what client.chat.completions.create / generate_content may raise
ApiExceptions == {"RateLimitError", "APITimeoutError", "APIConnectionError"}

BackoffOneSecond(n) == 1

\* time.sleep(1.0 * attempt): the seconds slept after failed attempt n
Backoff(n) == 1 * n

RetryInit ==
    /\ FileIdle /\ CallIdle /\ IdChainIdle /\ BatchIdle
    /\ OcrIdle /\ TableIdle /\ MainIdle /\ PairIdle /\ FunIdle
    /\ backend \in Backends
    /\ api_key \in BOOLEAN
    /\ attempt = 0
    /\ rpc = "getenv"
    /\ sleeps = <<>>
    /\ failures = <<>>
    /\ raisedError = "none"

notRetry == <<fileVars, callVars, idVars, batchVars, ocrVars, tableVars, mainVars, pairVars, funVars>>

\* api_key = os.getenv(...); if not api_key: raise EnvironmentError; the client;
\* the for loop starts with attempt 1
GetKey ==
    /\ rpc = "getenv"
    /\ IF ~api_key
       THEN /\ rpc' = "raised"
            /\ raisedError' = "EnvironmentError"
            /\ UNCHANGED attempt
       ELSE /\ rpc' = "try"
            /\ attempt' = 1
            /\ UNCHANGED raisedError
    /\ UNCHANGED <<backend, api_key, sleeps, failures, notRetry>>

\* the body of the try of one attempt: the response is returned, or the except
\* clause re-raises on the last attempt and goes to sleep on the others
Attempt ==
    /\ rpc = "try"
    /\ \/ /\ rpc' = "returned"
          /\ UNCHANGED <<failures, raisedError>>
       \/ \E e \in ApiExceptions :
            /\ failures' = Append(failures, e)
            /\ IF attempt = max_retries
               THEN rpc' = "raised" /\ raisedError' = e
               ELSE rpc' = "sleep" /\ UNCHANGED raisedError
    /\ UNCHANGED <<backend, api_key, attempt, sleeps, notRetry>>

\* time.sleep(1.0 * attempt), then the next iteration of the for loop
Sleep ==
    /\ rpc = "sleep"
    /\ sleeps' = Append(sleeps, Backoff(attempt))
    /\ attempt' = attempt + 1
    /\ rpc' = "try"
    /\ UNCHANGED <<backend, api_key, failures, raisedError, notRetry>>

RetryNext == GetKey \/ Attempt \/ Sleep

SpecRetry == RetryInit /\ [][RetryNext]_vars

---------------------------------------------------------------------------
(* table_extractor.py: call_whisperer_and_get_text, the submission of the merged *)
(* PDF to the OCR service and the polling loop                                *)

\* the statuses whisper_status reports; a document goes from accepted to
\* processing to one of the two final statuses, and a final status stays
StatusRank(st) ==
    IF st = "accepted" THEN 0 ELSE IF st = "processing" THEN 1 ELSE 2
OcrStatuses == {"accepted", "processing", "processed", "processing_failed"}
FinalStatus(st) == StatusRank(st) = 2
NextStatuses(seen) ==
    IF seen = <<>> THEN OcrStatuses
    ELSE IF FinalStatus(seen[Len(seen)]) THEN {seen[Len(seen)]}
    ELSE {st \in OcrStatuses : StatusRank(st) >= StatusRank(seen[Len(seen)])}

OcrInit ==
    /\ FileIdle /\ CallIdle /\ IdChainIdle /\ BatchIdle
    /\ RetryIdle /\ TableIdle /\ MainIdle /\ PairIdle /\ FunIdle
    /\ opc = "whisper"
    /\ statuses = <<>>
    /\ naps = 0

notOcr == <<fileVars, callVars, idVars, batchVars, retryVars, tableVars, mainVars, pairVars, funVars>>

\* client.whisper(...) and the test of whisper_hash
Whisper ==
    /\ opc = "whisper"
    /\ \/ opc' = "status"        \* a whisper_hash came back
       \/ opc' = "raised"        \* the client raised, or no whisper_hash: RuntimeError
    /\ UNCHANGED <<statuses, naps, notOcr>>

\* one iteration of while True up to the test of the status
WhisperStatus ==
    /\ opc = "status"
    /\ Len(statuses) < MaxPolls
    /\ \/ \E st \in NextStatuses(statuses) :
            /\ statuses' = Append(statuses, st)
            /\ opc' = IF st = "processed" THEN "retrieve" ELSE "sleep"
       \/ /\ opc' = "raised"     \* whisper_status raised
          /\ UNCHANGED statuses
    /\ UNCHANGED <<naps, notOcr>>

\* time.sleep(5), then the next iteration
Nap ==
    /\ opc = "sleep"
    /\ naps' = naps + 1
    /\ opc' = "status"
    /\ UNCHANGED <<statuses, notOcr>>

\* whisper_retrieve, break, return retrieved["extraction"]["result_text"]
WhisperRetrieve ==
    /\ opc = "retrieve"
    /\ \/ opc' = "returned"
       \/ opc' = "raised"
    /\ UNCHANGED <<statuses, naps, notOcr>>

OcrNext == Whisper \/ WhisperStatus \/ Nap \/ WhisperRetrieve

SpecOcr == OcrInit /\ [][OcrNext]_vars

---------------------------------------------------------------------------
(* The table path of one pair: app.py's PHASE 2, and main.py's main_table over *)
(* the generator process_subfolders_in_memory of table_extractor.py           *)

\* get_pages_with_tables_pdfplumber: the 0-based indices of the pages with
\* tables, in page order, of a document of MaxPage pages
RECURSIVE PagesInOrder(_, _)
PagesInOrder(S, i) ==
    IF i >= MaxPage THEN <<>>
    ELSE (IF i \in S THEN <<i>> ELSE <<>>) \o PagesInOrder(S, i + 1)
PageLists == {PagesInOrder(S, 0) : S \in SUBSET (0..(MaxPage - 1))}

MergedPagesLabelsAlways(fw, spo) == 2 + Len(fw) + Len(spo)

\* write_temp_merged_pdf: len(writer.pages), a label page and the table pages
\* for each document that has table pages
MergedPages(fw, spo) ==
    (IF fw # <<>> THEN 1 + Len(fw) ELSE 0) + (IF spo # <<>> THEN 1 + Len(spo) ELSE 0)

\* the pages of the merged document: a label page, or a page of a source
LabelPage(label) == [src |-> "label", label |-> label, page |-> 0]
SourcePage(src, i) == [src |-> src, label |-> "", page |-> i]

\* assemble_pages_with_pypdf: the pages of the source with the given indices,
\* as far as the source has them, added in the order of the list
RECURSIVE assemble_pages_with_pypdf(_, _, _)
assemble_pages_with_pypdf(src, page_indices, writer) ==
    IF page_indices = <<>> THEN writer
    ELSE assemble_pages_with_pypdf(src, Tail(page_indices),
            IF 0 <= Head(page_indices) /\ Head(page_indices) < MaxPage
            THEN Append(writer, SourcePage(src, Head(page_indices)))
            ELSE writer)

\* a merge that puts the SPO's pages before the framework's
MergedDocumentSpoFirst(fw, spo) ==
    LET w1 == IF spo # <<>>
              THEN assemble_pages_with_pypdf("spo", spo,
                       <<LabelPage("Second Party Opinion / SPO")>>)
              ELSE <<>>
    IN  IF fw # <<>>
        THEN assemble_pages_with_pypdf("framework", fw, Append(w1, LabelPage("Framework PDF")))
        ELSE w1

\* write_temp_merged_pdf: writer.pages when the document is written
MergedDocument(fw, spo) ==
    LET w1 == IF fw # <<>>
              THEN assemble_pages_with_pypdf("framework", fw, <<LabelPage("Framework PDF")>>)
              ELSE <<>>
    IN  IF spo # <<>>
        THEN assemble_pages_with_pypdf("spo", spo,
                 Append(w1, LabelPage("Second Party Opinion / SPO")))
        ELSE w1

TablePathInit ==
    /\ FileIdle /\ CallIdle /\ IdChainIdle /\ BatchIdle
    /\ RetryIdle /\ OcrIdle /\ MainIdle /\ PairIdle /\ FunIdle
    /\ entry \in {"app", "main"}
    /\ tpc = "merge"
    /\ fw_pages \in PageLists
    /\ spo_pages \in PageLists
    /\ merged_pdf = <<>>
    /\ tmpExists = FALSE
    /\ tlog = <<>>

notTable == <<callVars, idVars, batchVars, retryVars, ocrVars, mainVars, pairVars, funVars>>

\* where an exception of the path goes: app.py's except reports it and the pair
\* ends; in main.py it is printed and the generator's finally runs
AfterError == IF entry = "app" THEN "done" ELSE "remove"
Reported(log, op) == log \o <<op, IF entry = "app" THEN "st.error" ELSE "print">>

\* merged_tmp_path = write_temp_merged_pdf(framework, spo)
WriteTempMergedPdf ==
    /\ tpc = "merge"
    /\ IF MergedPages(fw_pages, spo_pages) = 0
       THEN \* return None; app.py skips the if, the generator continues
            /\ tlog' = Append(tlog, "write_temp_merged_pdf")
            /\ tpc' = "done"
            /\ UNCHANGED <<tmpExists, merged_pdf>>
       ELSE \/ \* the file is created and written, its path returned
               /\ tmpExists' = TRUE
               /\ merged_pdf' = MergedDocument(fw_pages, spo_pages)
               /\ tlog' = Append(tlog, "write_temp_merged_pdf")
               /\ tpc' = "ocr"
            \/ \* PdfReader raises (before the file), or writer.write raises (after
               \* NamedTemporaryFile(delete=False) made it); main.py has no handler
               /\ tmpExists' \in BOOLEAN
               /\ UNCHANGED merged_pdf
               /\ tlog' = IF entry = "app" THEN Reported(tlog, "write_temp_merged_pdf")
                          ELSE Append(tlog, "write_temp_merged_pdf")
               /\ tpc' = IF entry = "app" THEN "done" ELSE "crashed"
    /\ UNCHANGED <<entry, fw_pages, spo_pages, fileVars, notTable>>

\* extracted_text = call_whisperer_and_get_text(merged_tmp_path)
CallWhisperer ==
    /\ tpc = "ocr"
    /\ \/ /\ tlog' = Append(tlog, "call_whisperer_and_get_text")
          /\ tpc' = "parse"
       \/ /\ tlog' = Reported(tlog, "call_whisperer_and_get_text")
          /\ tpc' = AfterError
    /\ UNCHANGED <<entry, fw_pages, spo_pages, merged_pdf, tmpExists, fileVars, notTable>>

\* parsed_dict = parser_for_table(text, PROMPTS_TABLE)
ParserForTable ==
    /\ tpc = "parse"
    /\ \/ /\ tlog' = Append(tlog, "parser_for_table")
          /\ tpc' = "write"
       \/ /\ tlog' = Reported(tlog, "parser_for_table")
          /\ tpc' = AfterError
    /\ UNCHANGED <<entry, fw_pages, spo_pages, merged_pdf, tmpExists, fileVars, notTable>>

\* writer_to_excel_table(parsed_dict, EXCEL_FILE)
WriteTable ==
    /\ tpc = "write"
    /\ \E j \in {4, 6} :
        LET out == writer_to_excel_table(File, TableSamples[j])
        IN  /\ fileExists' = out.fileExists
            /\ sheetnames' = out.sheetnames
            /\ ws' = out.ws
            /\ IF out.raised = "none"
               THEN /\ tlog' = Append(tlog, "writer_to_excel_table")
                    /\ tpc' = "remove"
               ELSE /\ tlog' = Reported(tlog, "writer_to_excel_table")
                    /\ tpc' = AfterError
    /\ UNCHANGED <<entry, fw_pages, spo_pages, merged_pdf, tmpExists, notTable>>

\* if os.path.exists(merged_tmp_path): os.remove(merged_tmp_path)
RemoveTemp ==
    /\ tpc = "remove"
    /\ tmpExists' = FALSE
    /\ tlog' = IF tmpExists THEN Append(tlog, "os.remove") ELSE tlog
    /\ tpc' = "done"
    /\ merged_pdf' = <<>>
    /\ UNCHANGED <<entry, fw_pages, spo_pages, fileVars, notTable>>

TablePathNext ==
    WriteTempMergedPdf \/ CallWhisperer \/ ParserForTable \/ WriteTable \/ RemoveTemp

SpecTablePath == TablePathInit /\ [][TablePathNext]_vars

---------------------------------------------------------------------------
(* main.py run as a script: main() over the subfolders, then main_table()      *)

\* what the run finds: the completion credential in the environment, and the
\* prompts file (readable JSON, absent, or not JSON)
Environments ==
    [api_key : BOOLEAN, prompts_file : {"ok", "missing", "malformed"}]

Event(fn, op) == [fn |-> fn, folder |-> folder, op |-> op]

MainInit ==
    /\ FileIdle /\ CallIdle /\ IdChainIdle
    /\ RetryIdle /\ OcrIdle /\ TableIdle /\ PairIdle /\ FunIdle
    /\ prompts \in PromptLists
    /\ idx = 0 /\ phase = "none" /\ results = <<>> /\ written = <<>> /\ errors = <<>>
    /\ executed = <<>>
    /\ mpc = "main"
    /\ folder = 1
    /\ env \in Environments
    /\ mlog = <<>>

notMain == <<callVars, idVars, batchVars, retryVars, ocrVars, tableVars, pairVars, funVars>>

\* an exception leaves main(): the script ends with the traceback
Crash(ops) ==
    /\ mlog' = mlog \o ops
    /\ mpc' = "crashed"
    /\ UNCHANGED folder

\* the loop goes on to the next subfolder; after the last one main() returns
\* and main_table() starts
MainAdvance(ops) ==
    /\ mlog' = mlog \o ops
    /\ IF folder = NumFolders
       THEN mpc' = "main_table" /\ folder' = 1
       ELSE mpc' = "main" /\ folder' = folder + 1

\* one iteration of main()'s loop over the subfolders
MainFolder ==
    /\ mpc = "main"
    /\ folder <= NumFolders
    /\ LET found == Event("main", "find_pdf_pair")
           chunked == Event("main", "extract_chunks_from_two_pdfs")
           opened == Event("main", "open prompts")
           called == Event("main", "call_openai")
       IN  \/ \* no pair in the subfolder: continue
              MainAdvance(<<found>>)
           \/ \* a document cannot be read
              Crash(<<found, chunked, Event("main", "PdfError")>>)
           \/ /\ env.prompts_file = "missing"
              /\ Crash(<<found, chunked, opened, Event("main", "FileNotFoundError")>>)
           \/ /\ env.prompts_file = "malformed"
              /\ Crash(<<found, chunked, opened, Event("main", "JSONDecodeError")>>)
           \/ /\ env.prompts_file = "ok"
              /\ ~env.api_key
              /\ Crash(<<found, chunked, opened, called, Event("main", "EnvironmentError")>>)
           \/ /\ env.prompts_file = "ok"
              /\ env.api_key
              /\ \E outs \in [1..Len(prompts) ->
                            UNION {TaskOutcomes(r) : r \in {"framework", "spo", "both"}}] :
                    /\ \A i \in 1..Len(prompts) : outs[i] \in TaskOutcomes(prompts[i])
                    /\ IF \E i \in 1..Len(prompts) : outs[i].kind = "failed"
                       THEN Crash(<<found, chunked, opened, called,
                                    Event("main", "APIError")>>)
                       ELSE IF \E i \in 1..Len(prompts) : outs[i].kind = "object"
                       THEN \* write_to_excel(json_result, run_for=run_for): no file_path
                            Crash(<<found, chunked, opened, called,
                                    Event("main", "write_to_excel"),
                                    Event("main", "TypeError")>>)
                       ELSE MainAdvance(<<found, chunked, opened, called>>)
    /\ UNCHANGED <<env, fileVars, notMain>>

\* main_table()'s loop goes on to the next company, or ends
TableAdvance(ops) ==
    /\ mlog' = mlog \o ops
    /\ folder' = folder + 1
    /\ mpc' = IF folder = NumFolders THEN "done" ELSE "main_table"

\* one company of main_table(): the generator up to its yield, the loop body,
\* the generator's finally
MainTableCompany ==
    /\ mpc = "main_table"
    /\ folder <= NumFolders
    /\ LET found == Event("main_table", "find_framework_and_spo_pdfs")
           merged == Event("main_table", "write_temp_merged_pdf")
           ocr == Event("main_table", "call_whisperer_and_get_text")
           parsed == Event("main_table", "parser_for_table")
           wrote == Event("main_table", "writer_to_excel_table")
           printed == Event("main_table", "print")
           removed == Event("main_table", "os.remove")
       IN  \/ \* a document missing, or no table pages: continue
              /\ \/ TableAdvance(<<found>>)
                 \/ TableAdvance(<<found, merged>>)
              /\ UNCHANGED fileVars
           \/ \* write_temp_merged_pdf raises: nothing catches it
              /\ Crash(<<found, merged, Event("main_table", "PdfError")>>)
              /\ UNCHANGED fileVars
           \/ \* the OCR call raises: except and finally of the generator
              /\ TableAdvance(<<found, merged, ocr, printed, removed>>)
              /\ UNCHANGED fileVars
           \/ \* parser_for_table raises (always, when the credential is missing)
              /\ TableAdvance(<<found, merged, ocr, parsed, printed, removed>>)
              /\ UNCHANGED fileVars
           \/ /\ env.api_key
              /\ \E j \in {4, 6} :
                    LET out == writer_to_excel_table(File, TableSamples[j])
                    IN  /\ fileExists' = out.fileExists
                        /\ sheetnames' = out.sheetnames
                        /\ ws' = out.ws
                        /\ IF out.raised = "none"
                           THEN TableAdvance(<<found, merged, ocr, parsed, wrote, removed>>)
                           ELSE TableAdvance(<<found, merged, ocr, parsed, wrote, printed,
                                               removed>>)
    /\ UNCHANGED <<env, notMain>>

MainNext == MainFolder \/ MainTableCompany

SpecMain == MainInit /\ [][MainNext]_vars

---------------------------------------------------------------------------
(* app.py: match_pairs, the pairing of the uploaded files by their names.  A   *)
(* name is the sequence of its characters; an uploaded file is an object, so   *)
(* two files of one name are two files (their id tells them apart).           *)

UpperCase == <<"A", "B", "C", "D", "E", "F", "G", "H", "I", "J", "K", "L", "M", "N", "O", "P", "Q", "R", "S", "T", "U", "V", "W", "X", "Y", "Z">>
LowerCase == <<"a", "b", "c", "d", "e", "f", "g", "h", "i", "j", "k", "l", "m", "n", "o", "p", "q", "r", "s", "t", "u", "v", "w", "x", "y", "z">>

\* str.lower()
LowerChar(c) ==
    IF \E i \in 1..26 : UpperCase[i] = c
    THEN LowerCase[CHOOSE i \in 1..26 : UpperCase[i] = c]
    ELSE c
Lower(name) == [i \in 1..Len(name) |-> LowerChar(name[i])]

\* word in fname
Contains(name, word) ==
    \E i \in 1..(Len(name) - Len(word) + 1) : SubSeq(name, i, i + Len(word) - 1) = word


\* any(x in fname for x in ["spo", "second", "opinion"])
AnySpoWord(fname) ==
    \/ Contains(fname, <<"s", "p", "o">>)
    \/ Contains(fname, <<"s", "e", "c", "o", "n", "d">>)
    \/ Contains(fname, <<"o", "p", "i", "n", "i", "o", "n">>)

\* "1. Bucket files"
Bucket(f) ==
    LET fname == Lower(f.name)
    IN  IF Contains(fname, <<"f", "r", "a", "m", "e", "w", "o", "r", "k">>) /\ ~AnySpoWord(fname) THEN "framework"
        ELSE IF AnySpoWord(fname) THEN "spo"
        ELSE "other"

\* difflib.SequenceMatcher(None, a, b) without junk (no isjunk, and the
\* automatic junk heuristic needs 200 characters): the length of the common
\* run that starts at a[i], b[j] inside the windows a[..ahi], b[..bhi]
RECURSIVE RunLen(_, _, _, _, _, _)
RunLen(a, b, i, j, ahi, bhi) ==
    IF i > ahi \/ j > bhi THEN 0
    ELSE IF a[i] # b[j] THEN 0
    ELSE 1 + RunLen(a, b, i + 1, j + 1, ahi, bhi)

\* the value of F at the value of e, e computed once
Once(e, F(_)) == CHOOSE r \in {F(x) : x \in {e}} : TRUE

\* find_longest_match: a longest common block of the two windows; of those the
\* one that starts earliest in a, and of those the one that starts earliest in b
find_longest_match(a, b, alo, ahi, blo, bhi) ==
    Once({[i |-> i, j |-> j, size |-> RunLen(a, b, i, j, ahi, bhi)] :
            i \in alo..ahi, j \in blo..bhi},
         LAMBDA blocks :
            CHOOSE m \in blocks :
                \A d \in blocks :
                    \/ d.size < m.size
                    \/ d.size = m.size /\ m.i < d.i
                    \/ d.size = m.size /\ m.i = d.i /\ m.j <= d.j)

\* get_matching_blocks: the characters in the blocks found by taking the longest
\* match, then the same to its left and to its right
RECURSIVE MatchedChars(_, _, _, _, _, _)
MatchedChars(a, b, alo, ahi, blo, bhi) ==
    IF alo > ahi \/ blo > bhi THEN 0
    ELSE Once(find_longest_match(a, b, alo, ahi, blo, bhi),
              LAMBDA m :
                IF m.size = 0 THEN 0
                ELSE m.size
                     + MatchedChars(a, b, alo, m.i - 1, blo, m.j - 1)
                     + MatchedChars(a, b, m.i + m.size, ahi, m.j + m.size, bhi))

\* a score is a fraction num/den, den > 0.  The floats the code computes
\* compare as these fractions do: the names are far shorter than 2^26
\* characters, and 2.0*M/T is the float 0.4 exactly when 2M/T = 2/5.
Frac(num, den) == [num |-> num, den |-> den]
Gt(x, y) == x.num * y.den > y.num * x.den
Ge(x, y) == x.num * y.den >= y.num * x.den

\* ratio(): 2.0 * matches / (len(a) + len(b)), 1.0 for two empty strings
Ratio(a, b) ==
    IF Len(a) + Len(b) = 0 THEN Frac(1, 1)
    ELSE Frac(2 * MatchedChars(a, b, 1, Len(a), 1, Len(b)), Len(a) + Len(b))

\* the files a user may upload
Uploads ==
    {[id |-> 1,    \* Acme_Framework.pdf
      name |-> <<"A", "c", "m", "e", "_", "F", "r", "a", "m", "e", "w", "o", "r", "k", ".", "p", "d", "f">>],
     [id |-> 2,    \* acme_spo.pdf
      name |-> <<"a", "c", "m", "e", "_", "s", "p", "o", ".", "p", "d", "f">>],
     [id |-> 3,    \* framework.pdf
      name |-> <<"f", "r", "a", "m", "e", "w", "o", "r", "k", ".", "p", "d", "f">>],
     [id |-> 4,    \* spo.pdf
      name |-> <<"s", "p", "o", ".", "p", "d", "f">>],
     [id |-> 5,    \* spo.pdf
      name |-> <<"s", "p", "o", ".", "p", "d", "f">>],
     [id |-> 6,    \* notes.pdf
      name |-> <<"n", "o", "t", "e", "s", ".", "p", "d", "f">>],
     [id |-> 7,    \* framework_spo.pdf
      name |-> <<"f", "r", "a", "m", "e", "w", "o", "r", "k", "_", "s", "p", "o", ".", "p", "d", "f">>],
     [id |-> 8,    \* Acm_SPO.pdf
      name |-> <<"A", "c", "m", "_", "S", "P", "O", ".", "p", "d", "f">>]}

\* the lower-cased names of these files
Names == {Lower(f.name) : f \in Uploads}

\* the ratio of every two of these names, each computed once
Ratios == {[a |-> a, b |-> b, ratio |-> Ratio(a, b)] : a \in Names, b \in Names}

\* SequenceMatcher(None, a, b).ratio() of two of these names
RatioOf(a, b) == (CHOOSE r \in Ratios : r.a = a /\ r.b = b).ratio

\* the loop over zip(fw_name, spo_name)
common_prefix_len(a, b) == RunLen(a, b, 1, 1, Len(a), Len(b))

ScoreBonusFromThree(fw_name, spo_name) ==
    Once(RatioOf(fw_name, spo_name),
         LAMBDA r :
            IF common_prefix_len(fw_name, spo_name) >= 3
            THEN Frac(2 * r.num + r.den, 2 * r.den)
            ELSE r)

\* the score of a framework name and an SPO name: the ratio, plus 0.5 when the
\* common prefix is longer than 3
Score(fw_name, spo_name) ==
    Once(RatioOf(fw_name, spo_name),
         LAMBDA r :
            IF common_prefix_len(fw_name, spo_name) > 3
            THEN Frac(2 * r.num + r.den, 2 * r.den)
            ELSE r)

Threshold == Frac(2, 5)

NoFile == [id |-> 0, name |-> <<>>]

UnusedAlways(spo, used_spos) == TRUE

\* if spo in used_spos: continue
Unused(spo, used_spos) == spo \notin used_spos

BetterOrEqual(score, best_score) == Ge(score, best_score)

\* if score > best_score
Better(score, best_score) == Gt(score, best_score)

\* the inner loop from SPO k on: best_match and best_score
RECURSIVE ScanSpos(_, _, _, _, _, _)
ScanSpos(fw_name, spos, used_spos, k, best_match, best_score) ==
    IF k > Len(spos) THEN [match |-> best_match, score |-> best_score]
    ELSE IF ~Unused(spos[k], used_spos)
    THEN ScanSpos(fw_name, spos, used_spos, k + 1, best_match, best_score)
    ELSE Once(Score(fw_name, Lower(spos[k].name)),
              LAMBDA score :
                IF Better(score, best_score)
                THEN ScanSpos(fw_name, spos, used_spos, k + 1, spos[k], score)
                ELSE ScanSpos(fw_name, spos, used_spos, k + 1, best_match, best_score))

AcceptFromThreshold(best_match, best_score) ==
    best_match # NoFile /\ Ge(best_score, Threshold)

\* if best_match and best_score > 0.4
Accept(best_match, best_score) ==
    best_match # NoFile /\ Gt(best_score, Threshold)

\* "2. Match Frameworks to nearest SPO", the loop from framework k on
RECURSIVE MatchFrameworks(_, _, _, _, _, _)
MatchFrameworks(frameworks, spos, k, ps, used_spos, rest) ==
    IF k > Len(frameworks) THEN [pairs |-> ps, used_spos |-> used_spos, others |-> rest]
    ELSE Once(ScanSpos(Lower(frameworks[k].name), spos, used_spos, 1, NoFile, Frac(0, 1)),
              LAMBDA best :
                IF Accept(best.match, best.score)
                THEN MatchFrameworks(frameworks, spos, k + 1,
                        Append(ps, [framework |-> frameworks[k], spo |-> best.match]),
                        used_spos \cup {best.match}, rest)
                ELSE MatchFrameworks(frameworks, spos, k + 1, ps, used_spos,
                                     Append(rest, frameworks[k])))

FilesOf(files, b) == SelectSeq(files, LAMBDA f : Bucket(f) = b)

\* match_pairs without its last loop ("Add remaining unmatched SPOs to others")
match_pairs_without_unused_spos(files) ==
    Once(MatchFrameworks(FilesOf(files, "framework"), FilesOf(files, "spo"), 1, <<>>, {},
                         FilesOf(files, "other")),
         LAMBDA m : [pairs |-> m.pairs, others |-> m.others])

\* match_pairs(file_list): the pairs and the unmatched files
match_pairs(files) ==
    Once(MatchFrameworks(FilesOf(files, "framework"), FilesOf(files, "spo"), 1, <<>>, {},
                         FilesOf(files, "other")),
         LAMBDA m :
            [pairs |-> m.pairs,
             others |-> m.others
                        \o SelectSeq(FilesOf(files, "spo"), LAMBDA f : f \notin m.used_spos)])

\* the lists the uploader hands over: up to MaxFiles files, no file twice
FileLists ==
    {l \in UNION {[1..n -> Uploads] : n \in 0..MaxFiles} :
        \A i, k \in 1..Len(l) : i # k => l[i] # l[k]}

PairsInit ==
    /\ FileIdle /\ CallIdle /\ IdChainIdle /\ BatchIdle
    /\ RetryIdle /\ OcrIdle /\ TableIdle /\ MainIdle /\ FunIdle
    /\ file_list \in FileLists
    /\ pairs = <<>>
    /\ others = <<>>
    /\ matched = FALSE

\* pairs, unmatched = match_pairs(uploaded_files)
MatchPairs ==
    /\ ~matched
    /\ LET r == match_pairs(file_list)
       IN  pairs' = r.pairs /\ others' = r.others
    /\ matched' = TRUE
    /\ UNCHANGED <<file_list, funVars, fileVars, callVars, idVars, batchVars, retryVars, ocrVars,
                   tableVars, mainVars>>

PairsNext == MatchPairs

SpecPairs == PairsInit /\ [][PairsNext]_vars

---------------------------------------------------------------------------
(* The scan of one folder for its pair of documents: find_pdf_pair (main.py) *)
(* and find_framework_and_spo_pdfs (table_extractor.py), the same code twice *)

\* the parts of the state used by the specifications above
coreVars == <<fileVars, callVars, idVars, batchVars, retryVars, ocrVars, tableVars, mainVars,
              pairVars>>
CoreIdle ==
    /\ FileIdle /\ CallIdle /\ IdChainIdle /\ BatchIdle
    /\ RetryIdle /\ OcrIdle /\ TableIdle /\ MainIdle /\ PairIdle

\* lf.endswith(".pdf")
EndsWithPdf(lf) == Len(lf) >= 4 /\ SubSeq(lf, Len(lf) - 3, Len(lf)) = <<".", "p", "d", "f">>

\* any(word in lf for word in words)
AnyWord(lf, words) == \E i \in 1..Len(words) : Contains(lf, words[i])

W_framework == <<"f", "r", "a", "m", "e", "w", "o", "r", "k">>
W_spo == <<"s", "p", "o">>
W_spoc == <<"s", "p", "o", "c">>
W_second == <<"s", "e", "c", "o", "n", "d">>
W_second_party_opinion == <<"s", "e", "c", "o", "n", "d", "-", "p", "a", "r", "t", "y", "-", "o", "p", "i", "n", "i", "o", "n">>

\* "Strict framework condition" on a lower-cased name
StrictFramework(lf) ==
    Contains(lf, W_framework) /\ ~AnyWord(lf, <<W_spo, W_second, W_second_party_opinion>>)

\* "SPO detection" on a lower-cased name
SpoDetection(lf) == AnyWord(lf, <<W_spo, W_spoc, W_second, W_second_party_opinion>>)

\* the loop over the listed names from name k on: the last name of each kind stays
RECURSIVE ScanFolder(_, _, _, _)
ScanFolder(files, k, framework, spo) ==
    IF k > Len(files) THEN [framework |-> framework, spo |-> spo]
    ELSE IF ~EndsWithPdf(Lower(files[k])) THEN ScanFolder(files, k + 1, framework, spo)
    ELSE IF StrictFramework(Lower(files[k])) THEN ScanFolder(files, k + 1, files[k], spo)
    ELSE IF SpoDetection(Lower(files[k])) THEN ScanFolder(files, k + 1, framework, files[k])
    ELSE ScanFolder(files, k + 1, framework, spo)

\* "Fallback: if exactly two PDFs exist, assume they're a pair"
Fallback(files, r) ==
    LET pdfs == SelectSeq(files, LAMBDA f : EndsWithPdf(Lower(f)))
    IN  IF ~(r.framework # None /\ r.spo # None) /\ Len(pdfs) = 2
        THEN [framework |-> pdfs[1], spo |-> pdfs[2]]
        ELSE r

\* a path is modelled by its file name: every path is os.path.join(folder_path, f)
find_pdf_pair(files) == Fallback(files, ScanFolder(files, 1, None, None))

find_framework_and_spo_pdfs(files) == Fallback(files, ScanFolder(files, 1, None, None))

\* the names a folder may hold
FolderNames ==
    {<<"F", "r", "a", "m", "e", "w", "o", "r", "k", ".", "p", "d", "f">>,    \* Framework.pdf
     <<"S", "P", "O", ".", "p", "d", "f">>,    \* SPO.pdf
     <<"r", "e", "p", "o", "r", "t", ".", "p", "d", "f">>,    \* report.pdf
     <<"a", "n", "n", "e", "x", ".", "P", "D", "F">>,    \* annex.PDF
     <<"s", "p", "o", "_", "n", "o", "t", "e", "s", ".", "t", "x", "t">>,    \* spo_notes.txt
     <<"S", "e", "c", "o", "n", "d", "_", "F", "r", "a", "m", "e", "w", "o", "r", "k", ".", "p", "d", "f">>    \* Second_Framework.pdf
    }

\* os.listdir: up to MaxListing names, no name twice, in any order
Listings ==
    {l \in UNION {[1..n -> FolderNames] : n \in 0..MaxListing} :
        \A i, k \in 1..Len(l) : i # k => l[i] # l[k]}

FindInit ==
    /\ CoreIdle /\ ChunkIdle /\ ExtractIdle /\ IndexIdle /\ RecoverIdle
    /\ listing \in Listings
    /\ finder = "none"
    /\ pdf_pair = [framework |-> None, spo |-> None]

\* framework, spo = find_pdf_pair(subp)
FindPdfPair ==
    /\ finder = "none"
    /\ finder' = "find_pdf_pair"
    /\ pdf_pair' = find_pdf_pair(listing)
    /\ UNCHANGED <<listing, coreVars, chunkVars, extractVars, indexVars, recoverVars>>

\* framework_pdf, spo_pdf = find_framework_and_spo_pdfs(sub_path)
FindFrameworkAndSpoPdfs ==
    /\ finder = "none"
    /\ finder' = "find_framework_and_spo_pdfs"
    /\ pdf_pair' = find_framework_and_spo_pdfs(listing)
    /\ UNCHANGED <<listing, coreVars, chunkVars, extractVars, indexVars, recoverVars>>

FindNext == FindPdfPair \/ FindFrameworkAndSpoPdfs

SpecFind == FindInit /\ [][FindNext]_vars

---------------------------------------------------------------------------
(* chunk_text (extractor.py): the split of one text into overlapping windows *)

\* the characters of a text: one that str.strip() keeps and one it removes
Chars == {"x", " "}
Whitespace == {" "}

Texts == UNION {[1..n -> Chars] : n \in 0..MaxLen}

Min(a, b) == IF a < b THEN a ELSE b
Max(a, b) == IF a > b THEN a ELSE b

\* a slice bound as Python reads it: a negative bound counts from the end
SliceBound(s, n) == IF n < 0 THEN Max(Len(s) + n, 0) ELSE Min(n, Len(s))

\* s[lo:hi]
Slice(s, lo, hi) == SubSeq(s, SliceBound(s, lo) + 1, SliceBound(s, hi))

StripLeft(s) ==
    IF \A k \in 1..Len(s) : s[k] \in Whitespace THEN <<>>
    ELSE SubSeq(s, CHOOSE a \in 1..Len(s) :
                        s[a] \notin Whitespace /\ \A k \in 1..(a - 1) : s[k] \in Whitespace,
                   Len(s))

\* str.strip(): without its leading and trailing whitespace
Strip(s) ==
    IF \A k \in 1..Len(s) : s[k] \in Whitespace THEN <<>>
    ELSE SubSeq(s, CHOOSE a \in 1..Len(s) :
                        s[a] \notin Whitespace /\ \A k \in 1..(a - 1) : s[k] \in Whitespace,
                   CHOOSE b \in 1..Len(s) :
                        s[b] \notin Whitespace /\ \A k \in (b + 1)..Len(s) : s[k] \in Whitespace)

StepIgnoresOverlap(size, lap) == size

\* a step that is never less than one character
StepAtLeastOne(size, lap) == Max(1, size - lap)

\* step = chunk_size - overlap
Step(size, lap) == size - lap

ChunkInit ==
    /\ CoreIdle /\ FindIdle /\ ExtractIdle /\ IndexIdle /\ RecoverIdle
    /\ text \in Texts
    /\ chunk_size \in 0..MaxChunk
    /\ overlap \in 0..MaxChunk
    /\ ci = 0
    /\ chunks = <<>>
    /\ starts = <<>>
    /\ cpc = "call"

\* the call, up to the loop: "if not text: return []"
ChunkTextCall ==
    /\ cpc = "call"
    /\ cpc' = IF text = <<>> THEN "returned" ELSE "loop"
    /\ ci' = 0
    /\ chunks' = <<>>
    /\ UNCHANGED <<text, chunk_size, overlap, starts, coreVars, findVars, indexVars, recoverVars, extractVars>>

\* one test of "while i < len(text)": a window is cut and i advances, or the
\* list is returned.  A run that never returns is cut after MaxWindows windows.
ChunkTextLoop ==
    /\ cpc = "loop"
    /\ IF ci < Len(text)
       THEN /\ Len(chunks) < MaxWindows
            /\ chunks' = Append(chunks, Strip(Slice(text, ci, ci + chunk_size)))
            /\ starts' = Append(starts, ci)
            /\ ci' = ci + Step(chunk_size, overlap)
            /\ UNCHANGED cpc
       ELSE /\ cpc' = "returned"
            /\ UNCHANGED <<chunks, starts, ci>>
    /\ UNCHANGED <<text, chunk_size, overlap, coreVars, findVars, indexVars, recoverVars, extractVars>>

ChunkNext == ChunkTextCall \/ ChunkTextLoop

SpecChunk == ChunkInit /\ [][ChunkNext]_vars

\* the interpreter runs the call to its end
SpecChunkFair == SpecChunk /\ WF_vars(ChunkNext)

---------------------------------------------------------------------------
(* extract_chunks_from_two_pdfs (extractor.py): the pages of the framework    *)
(* document, then those of the SPO document, each split by chunk_text         *)

\* what extract_text_from_pdf gives for a page: no text, blank text, words
PageTexts == {<<>>, <<" ">>, <<"x", " ", "x", "x">>}

\* the pages of a document
Docs == UNION {[1..n -> PageTexts] : n \in 0..MaxDocPages}

\* (chunk_size, overlap): an overlap inside the window, none, and two settings
\* with which the window does not advance
Settings == {<<3, 1>>, <<2, 0>>, <<1, 1>>, <<0, 2>>}

PageRecordsFromZero(page_chunks, source, page) ==
    [c_idx \in 1..Len(page_chunks) |->
        [chunk |-> page_chunks[c_idx], source |-> source, page |-> page, chunk_index |-> c_idx - 1]]

PageRecordsNeverEmpty(page_chunks, source, page) ==
    [c_idx \in 1..Max(Len(page_chunks), 1) |->
        [chunk |-> IF page_chunks = <<>> THEN <<>> ELSE page_chunks[c_idx],
         source |-> source, page |-> page, chunk_index |-> c_idx]]

\* the dictionaries of one page: enumerate(page_chunks, start=1).  The folder
\* entry, the same in every dictionary, is left out.
PageRecords(page_chunks, source, page) ==
    [c_idx \in 1..Len(page_chunks) |->
        [chunk |-> page_chunks[c_idx], source |-> source, page |-> page, chunk_index |-> c_idx]]

ExtractInit ==
    /\ CoreIdle /\ FindIdle /\ IndexIdle /\ RecoverIdle
    /\ documents \in [framework : Docs, spo : Docs]
    /\ \E setting \in Settings : chunk_size = setting[1] /\ overlap = setting[2]
    /\ role = "framework"
    /\ page_no = 0
    /\ all_chunks = <<>>
    /\ epc = "pages"
    /\ text = <<>> /\ ci = 0 /\ chunks = <<>> /\ starts = <<>> /\ cpc = "none"

\* the two for loops: the next page of the document is handed to chunk_text,
\* after the last page of the framework document the SPO document is read, and
\* after its last page all_chunks is returned
ExtractPage ==
    /\ epc = "pages"
    /\ IF page_no < Len(documents[role])
       THEN /\ page_no' = page_no + 1
            /\ text' = documents[role][page_no + 1]
            /\ cpc' = "call"
            /\ ci' = 0 /\ chunks' = <<>> /\ starts' = <<>>
            /\ epc' = "chunk_text"
            /\ UNCHANGED role
       ELSE /\ IF role = "framework"
               THEN role' = "spo" /\ page_no' = 0 /\ UNCHANGED epc
               ELSE epc' = "returned" /\ UNCHANGED <<role, page_no>>
            /\ UNCHANGED <<text, cpc, ci, chunks, starts>>
    /\ UNCHANGED <<documents, all_chunks, chunk_size, overlap, coreVars, findVars, indexVars, recoverVars>>

\* the loop over enumerate(page_chunks, start=1), once chunk_text has returned
AppendPageChunks ==
    /\ epc = "chunk_text" /\ cpc = "returned"
    /\ all_chunks' = all_chunks \o PageRecords(chunks, role, page_no)
    /\ epc' = "pages"
    /\ cpc' = "none"
    /\ UNCHANGED <<documents, role, page_no, text, chunk_size, overlap, ci, chunks, starts,
                   coreVars, findVars, indexVars, recoverVars>>

ExtractNext == ExtractPage \/ ChunkTextCall \/ ChunkTextLoop \/ AppendPageChunks

SpecExtract == ExtractInit /\ [][ExtractNext]_vars

---------------------------------------------------------------------------
(* The retrieval of the chunks most similar to a query (parser.py):          *)
(* build_tfidf_index and retrieve_top_k                                     *)

\* A text is the set of its terms, the words that are left once the stop words
\* are dropped.  TF-IDF weights are positive, so the cosine similarity of a
\* query and a text is positive exactly when they share a term of the
\* vocabulary, and 0 otherwise; its size is one of the levels 1..MaxSim.
Terms == {"bond", "green"}

TextLists == UNION {[1..n -> SUBSET Terms] : n \in 0..MaxTexts}

\* the terms the vectorizer learns from the texts
Vocabulary(texts) == UNION {texts[i] : i \in 1..Len(texts)}

\* cosine_similarity(qv, index["matrix"]).flatten(): every vector of levels
\* that is positive exactly where the text shares a vocabulary term with the query
Similarities(q, texts) ==
    {s \in [1..Len(texts) -> 0..MaxSim] :
        \A i \in 1..Len(texts) : s[i] > 0 <=> (q \cap texts[i] \cap Vocabulary(texts)) # {}}

ArgsortsAscending(s) ==
    {o \in [1..Len(s) -> 0..(Len(s) - 1)] :
        /\ \A a, b \in 1..Len(s) : a # b => o[a] # o[b]
        /\ \A a, b \in 1..Len(s) : a < b => s[o[a] + 1] <= s[o[b] + 1]}

\* np.argsort(-sims): the indices, from 0, by falling similarity; the order of
\* indices of equal similarity is the sort's choice
Argsorts(s) ==
    {o \in [1..Len(s) -> 0..(Len(s) - 1)] :
        /\ \A a, b \in 1..Len(s) : a # b => o[a] # o[b]
        /\ \A a, b \in 1..Len(s) : a < b => s[o[a] + 1] >= s[o[b] + 1]}

NonNegative(sim) == sim >= 0

\* if sims[i] > 0
Positive(sim) == sim > 0

\* [int(i) for i in order[:k] if sims[i] > 0]
TopPositive(order, s, n) ==
    SelectSeq(SubSeq(order, 1, Min(n, Len(order))), LAMBDA i : Positive(s[i + 1]))

IndexInit ==
    /\ CoreIdle /\ FindIdle /\ ChunkIdle /\ ExtractIdle /\ RecoverIdle
    /\ index_texts \in TextLists
    /\ query \in SUBSET Terms
    /\ top_k \in 0..MaxK
    /\ matrix = "unbuilt"
    /\ sims = <<>>
    /\ top_idx = <<>>
    /\ qpc = "build_tfidf_index"

\* index = build_tfidf_index(relevant_chunks): no matrix for no texts;
\* fit_transform raises ValueError when the texts hold no term at all
BuildTfidfIndex ==
    /\ qpc = "build_tfidf_index"
    /\ IF index_texts = <<>> THEN matrix' = "None" /\ qpc' = "retrieve_top_k"
       ELSE IF Vocabulary(index_texts) = {} THEN matrix' = "unbuilt" /\ qpc' = "ValueError"
       ELSE matrix' = "matrix" /\ qpc' = "retrieve_top_k"
    /\ UNCHANGED <<index_texts, query, top_k, sims, top_idx, coreVars, findVars, chunkVars,
                   extractVars, recoverVars>>

\* top_idx = retrieve_top_k(query, index, k=top_k)
RetrieveTopK ==
    /\ qpc = "retrieve_top_k"
    /\ IF matrix = "None"
       THEN top_idx' = <<>> /\ UNCHANGED sims
       ELSE \E s \in Similarities(query, index_texts) :
                \E order \in Argsorts(s) :
                    /\ sims' = s
                    /\ top_idx' = TopPositive(order, s, top_k)
    /\ qpc' = "returned"
    /\ UNCHANGED <<index_texts, query, top_k, matrix, coreVars, findVars, chunkVars,
                   extractVars, recoverVars>>

IndexNext == BuildTfidfIndex \/ RetrieveTopK

SpecIndex == IndexInit /\ [][IndexNext]_vars

---------------------------------------------------------------------------
(* The recovery of JSON from the model's response: parse_with_llm_openai    *)
(* (parser.py) and parser_for_table (table_parser.py)                       *)

\* A response text is a sequence of tokens with blanks between them: the four
\* brackets, a number ("1"), a member name with its colon ("k", as in "a":)
\* and a word of prose ("w").
Tokens == {"{", "}", "[", "]", "1", "k", "w"}

ResponseTexts == UNION {[1..n -> Tokens] : n \in 0..MaxTokens}

\* message.content is a text, or None (a response without content)
Contents == ResponseTexts \cup {None}

\* the JSON decoder on the value that starts at token i: the place after the
\* value, or 0 when no value starts there
RECURSIVE ScanValue(_, _)
ScanValue(t, i) ==
    IF i > Len(t) THEN 0
    ELSE IF t[i] = "1" THEN i + 1
    ELSE IF t[i] = "[" THEN
        IF i + 1 <= Len(t) /\ t[i + 1] = "]" THEN i + 2
        ELSE Once(ScanValue(t, i + 1),
                  LAMBDA e : IF e # 0 /\ e <= Len(t) /\ t[e] = "]" THEN e + 1 ELSE 0)
    ELSE IF t[i] = "{" THEN
        IF i + 1 <= Len(t) /\ t[i + 1] = "}" THEN i + 2
        ELSE IF i + 1 <= Len(t) /\ t[i + 1] = "k"
        THEN Once(ScanValue(t, i + 2),
                  LAMBDA e : IF e # 0 /\ e <= Len(t) /\ t[e] = "}" THEN e + 1 ELSE 0)
        ELSE 0
    ELSE 0

\* the whole text is one JSON value
IsJson(t) == ScanValue(t, 1) = Len(t) + 1

\* a JSON value: its kind and its text; an object with one member is written
\* by the member's name and the member's value
JsonValue(t) ==
    [kind |-> IF t[1] = "{" THEN "object" ELSE IF t[1] = "[" THEN "array" ELSE "number",
     member |-> "", value |-> t]
Member(name, v) == [kind |-> "object", member |-> name, value |-> v]

\* json.loads(text): the value or the exception
Loads(c) ==
    IF c = None THEN [raised |-> "TypeError", value |-> None]
    ELSE IF IsJson(c) THEN [raised |-> "none", value |-> JsonValue(c)]
    ELSE [raised |-> "JSONDecodeError", value |-> None]

\* a pattern that takes as little as it can: the first token c after place i
FirstAfter(t, i, c) ==
    IF \E q \in (i + 1)..Len(t) : t[q] = c
    THEN CHOOSE q \in (i + 1)..Len(t) : t[q] = c /\ \A r \in (i + 1)..(q - 1) : t[r] # c
    ELSE 0

\* the place of the last token c after place i, 0 when there is none
LastAfter(t, i, c) ==
    IF \E q \in (i + 1)..Len(t) : t[q] = c
    THEN CHOOSE q \in (i + 1)..Len(t) : t[q] = c /\ \A r \in (q + 1)..Len(t) : t[r] # c
    ELSE 0

\* re.search(r'(\{.*\}|\[.*\])', content, flags=re.S) from place i on: the
\* match that starts leftmost, each alternative taking all it can; <<>> for
\* no match
RECURSIVE Search(_, _)
Search(t, i) ==
    IF i > Len(t) THEN <<>>
    ELSE IF t[i] = "{" /\ LastAfter(t, i, "}") # 0 THEN SubSeq(t, i, LastAfter(t, i, "}"))
    ELSE IF t[i] = "[" /\ LastAfter(t, i, "]") # 0 THEN SubSeq(t, i, LastAfter(t, i, "]"))
    ELSE Search(t, i + 1)

\* the except branch: the span the pattern finds, parsed, else {"_raw": content}
FromSpan(c) ==
    IF c = None THEN [raised |-> "TypeError", value |-> None]
    ELSE IF Search(c, 1) # <<>> /\ Loads(Search(c, 1)).raised = "none"
    THEN Loads(Search(c, 1))
    ELSE [raised |-> "none", value |-> Member("_raw", c)]

\* parser_for_table: except json.JSONDecodeError
DecodeErrorOnly == {"JSONDecodeError"}

\* parse_with_llm_openai: except Exception
AnyException == {"JSONDecodeError", "TypeError"}

\* the try statement around json.loads(content), given what its except clause catches
Recover(c, caught) ==
    IF Loads(c).raised = "none" THEN Loads(c)
    ELSE IF Loads(c).raised \in caught THEN FromSpan(c)
    ELSE [raised |-> Loads(c).raised, value |-> None]

\* "Ensure a dictionary is always returned"
EnsureDict(v) == IF v.kind = "object" THEN v ELSE Member("_parsed", v.value)

RecoverInit ==
    /\ CoreIdle /\ FindIdle /\ ChunkIdle /\ ExtractIdle /\ IndexIdle
    /\ content \in Contents
    /\ recoverer = "none"
    /\ recovered = None
    /\ returned = None
    /\ jout = "none"

\* parse_with_llm_openai, from the content of the response to parsed
ParseWithLlmOpenai ==
    /\ recoverer = "none"
    /\ recoverer' = "parse_with_llm_openai"
    /\ LET r == Recover(content, AnyException)
       IN  /\ jout' = IF r.raised = "none" THEN "returned" ELSE r.raised
           /\ recovered' = r.value
           /\ returned' = r.value
    /\ UNCHANGED <<content, coreVars, findVars, chunkVars, extractVars, indexVars>>

\* parser_for_table, from the content of the response to the returned dictionary
ParserForTableRecover ==
    /\ recoverer = "none"
    /\ recoverer' = "parser_for_table"
    /\ LET r == Recover(content, DecodeErrorOnly)
       IN  /\ jout' = IF r.raised = "none" THEN "returned" ELSE r.raised
           /\ recovered' = r.value
           /\ returned' = IF r.raised = "none" THEN EnsureDict(r.value) ELSE None
    /\ UNCHANGED <<content, coreVars, findVars, chunkVars, extractVars, indexVars>>

RecoverNext == ParseWithLlmOpenai \/ ParserForTableRecover

SpecRecover == RecoverInit /\ [][RecoverNext]_vars

---------------------------------------------------------------------------
(* Properties of the identifier allocator (specification SpecIds) *)

\* 'F' followed by n written with at least three digits, zeros on the left
Pad3(n) ==
    IF n < 10 THEN <<"0", "0", DigitChar(n)>>
    ELSE IF n < 100 THEN <<"0", DigitChar(n \div 10), DigitChar(n % 10)>>
    ELSE DecimalDigits(n)
ExpectedId(n) == <<"F">> \o Pad3(n)

AllDigits(s) == \A i \in 1..Len(s) : s[i] \in DigitSet

\* C3: _get_next_framework_id returns F001 for a sheet without data rows
\* (max_row 1: header only, or empty), and for a sheet whose last row carries
\* the identifier with suffix N it returns the identifier with suffix N+1,
\* zero-padded to 3 digits.
C3_NextId ==
    [][idCount' = idCount + 1 =>
        IF idRows < 2 THEN idLast' = <<"F", "0", "0", "1">>
        ELSE \E N \in 1..MaxAlloc :
                idLast = ExpectedId(N) /\ idLast' = ExpectedId(N + 1)]_vars

C3_Witness == idCount = 12 /\ idLast = <<"F", "0", "1", "2">> /\ idMod = "table_writer"

---------------------------------------------------------------------------
(* Properties of the completion call (specification SpecRetry) *)

\* C12: a completion call makes at most 3 attempts; it returns at the first
\* attempt that succeeds, having slept 1 second after a failed first attempt and
\* 2 seconds after a failed second attempt and no more; after a failed third
\* attempt the error of that attempt leaves the function, no sleep following it.
SleepsSoFar(n) == [i \in 1..n |-> i]
C12_ThreeAttemptsLinearBackoff ==
    /\ attempt <= 3
    /\ Len(failures) <= 3
    /\ rpc \in {"try", "returned"} =>
        /\ Len(failures) = attempt - 1
        /\ sleeps = SleepsSoFar(attempt - 1)
    /\ rpc = "sleep" => Len(failures) = attempt /\ sleeps = SleepsSoFar(attempt - 1)
    /\ (rpc = "raised" /\ api_key) =>
        /\ attempt = 3
        /\ Len(failures) = 3
        /\ raisedError = failures[3]
        /\ sleeps = <<1, 2>>

C12_Witness ==
    /\ backend = "call_groq"
    /\ rpc = "raised"
    /\ failures = <<"RateLimitError", "APITimeoutError", "APIConnectionError">>
    /\ raisedError = "APIConnectionError"
    /\ sleeps = <<1, 2>>

---------------------------------------------------------------------------
(* Properties of the OCR polling loop (specification SpecOcr) *)

\* C15 as claimed: as soon as the OCR service reports the status
\* 'processing_failed' for the submitted document, call_whisperer_and_get_text
\* ends with an error: it neither sleeps nor polls again.
LastStatus == IF statuses = <<>> THEN "none" ELSE statuses[Len(statuses)]
C15_FailedStatusEndsPolling ==
    LastStatus = "processing_failed" => opc = "raised"

---------------------------------------------------------------------------
(* Properties of the table path of a pair (specification SpecTablePath) *)

InLog(op) == \E i \in 1..Len(tlog) : tlog[i] = op

\* C16 as claimed: in both entry points, once write_temp_merged_pdf has returned
\* the path of a merged temporary PDF, the file no longer exists when the pair's
\* table path has finished, whether it ended in success, in an OCR error, in a
\* table-parser error or in a table-writer error.
MergedPathReturned == InLog("call_whisperer_and_get_text")
C16_TempFileRemoved ==
    (tpc = "done" /\ MergedPathReturned) => ~tmpExists

\* C17: for a pair in which neither document has a table-bearing page,
\* write_temp_merged_pdf creates no file and returns None; no OCR submission, no
\* table parsing and no table write takes place, the output file is not
\* touched, and no error is raised or reported.
C17_NoTablesNoWork ==
    (fw_pages = <<>> /\ spo_pages = <<>> /\ tpc # "none") =>
        /\ ~tmpExists
        /\ tpc \in {"merge", "done"}
        /\ tpc = "done" => tlog = <<"write_temp_merged_pdf">>
        /\ ~InLog("call_whisperer_and_get_text")
        /\ ~InLog("parser_for_table")
        /\ ~InLog("writer_to_excel_table")
        /\ ~InLog("st.error") /\ ~InLog("print")
        /\ ~fileExists

C17_Witness ==
    /\ fw_pages = <<>> /\ spo_pages = <<>>
    /\ entry = "app"
    /\ tpc = "done"
    /\ tlog = <<"write_temp_merged_pdf">>

---------------------------------------------------------------------------
(* Properties of main.py run as a script (specification SpecMain) *)

\* C14 as claimed: an error raised while a pair is processed, in its text path or
\* in its table path, never keeps a later pair from being processed, and an
\* error in a pair's text path never keeps the pair's table path from running:
\* no exception ends the run while a pair or a path is still to come.
LastEvent == mlog[Len(mlog)]
C14_ErrorsDoNotStopTheBatch ==
    mpc = "crashed" => (LastEvent.fn = "main_table" /\ folder = NumFolders)

\* C18 as claimed: a missing completion credential, a missing prompts file and a
\* malformed prompts file are detected before any document of any pair is
\* opened, chunked or scanned for tables.
ConfigErrors == {"EnvironmentError", "FileNotFoundError", "JSONDecodeError"}
DocumentOps == {"extract_chunks_from_two_pdfs", "write_temp_merged_pdf"}
C18_ConfigCheckedBeforeDocuments ==
    \A i \in 1..Len(mlog) :
        mlog[i].op \in ConfigErrors =>
            \A k \in 1..(i - 1) : mlog[k].op \notin DocumentOps

\* C38: in the folder-driven batch path main() writes every task result that is
\* an object with a non-empty run_for into the output spreadsheet through
\* write_to_excel, right after the pair's tasks have been parsed: the call is
\* made after the completion calls, it returns, and the spreadsheet is there.
C38_MainWritesObjectResults ==
    \A i \in 1..Len(mlog) :
        (mlog[i].fn = "main" /\ mlog[i].op = "write_to_excel") =>
            /\ i > 1 /\ mlog[i - 1].op = "call_openai"
            /\ i < Len(mlog) => mlog[i + 1].op # "TypeError"
            /\ fileExists

---------------------------------------------------------------------------
(* Properties of match_pairs (specification SpecPairs) *)

PairScore(p) == Score(Lower(p.framework.name), Lower(p.spo.name))
FracEq(x, y) == x.num * y.den = y.num * x.den

\* C19: match_pairs emits a pair (framework, spo) only if the score of the two
\* names, the similarity ratio plus the prefix bonus, is strictly greater than
\* 0.4; two names whose score is at most 0.4 are never paired.
C19_PairedOnlyAboveThreshold ==
    \A k \in 1..Len(pairs) : Gt(PairScore(pairs[k]), Threshold)

\* 'Acme_Framework.pdf' comes first and scores exactly 0.4 with 'spo.pdf' (5
\* matching characters of 25): it stays unpaired, and 'framework.pdf', handled
\* after it, is paired with that SPO file
C19_Witness ==
    /\ matched
    /\ Len(pairs) = 1 /\ pairs[1].framework.id = 3 /\ pairs[1].spo.id = 4
    /\ \E i \in 1..Len(others) :
        /\ others[i].id = 1
        /\ FracEq(Score(Lower(others[i].name), Lower(pairs[1].spo.name)), Threshold)

\* C20: in the output of match_pairs no SPO file occurs in two pairs, no
\* framework file occurs in two pairs, and the framework file and the SPO file
\* of a pair are different files.
C20_PairsDisjoint ==
    /\ \A i, k \in 1..Len(pairs) :
        i # k => /\ pairs[i].spo # pairs[k].spo
                 /\ pairs[i].framework # pairs[k].framework
    /\ \A k \in 1..Len(pairs) : pairs[k].framework # pairs[k].spo

\* two pairs: 'Acme_Framework.pdf' is handled first and takes 'acme_spo.pdf';
\* 'framework.pdf', for which that SPO file scores highest, is handled after it
\* and gets 'spo.pdf'
C20_Witness ==
    /\ matched
    /\ Len(pairs) = 2
    /\ pairs[1].framework.id = 1 /\ pairs[1].spo.id = 2
    /\ pairs[2].framework.id = 3 /\ pairs[2].spo.id = 4
    /\ Gt(Score(Lower(pairs[2].framework.name), Lower(pairs[1].spo.name)),
          PairScore(pairs[2]))

\* the number of places of the output of match_pairs that hold the file f
Occurrences(f) ==
    Cardinality({k \in 1..Len(pairs) : pairs[k].framework = f})
    + Cardinality({k \in 1..Len(pairs) : pairs[k].spo = f})
    + Cardinality({i \in 1..Len(others) : others[i] = f})

InputFiles == {file_list[i] : i \in 1..Len(file_list)}

\* C21: match_pairs returns a partition of its input: every input file occurs
\* exactly once, as the framework of one pair, as the SPO of one pair or in the
\* unmatched list, and nothing else occurs; a framework without qualifying
\* match and every unused SPO are in the unmatched list.
C21_OutputIsPartition ==
    matched =>
        /\ \A f \in InputFiles : Occurrences(f) = 1
        /\ \A k \in 1..Len(pairs) : pairs[k].framework \in InputFiles /\ pairs[k].spo \in InputFiles
        /\ \A i \in 1..Len(others) : others[i] \in InputFiles
        /\ \A f \in InputFiles :
            (\A k \in 1..Len(pairs) : pairs[k].framework # f /\ pairs[k].spo # f)
                => \E i \in 1..Len(others) : others[i] = f

\* one pair, and in the unmatched list a framework that found no qualifying
\* SPO ('Acme_Framework.pdf') and an SPO that no framework took (the second
\* 'spo.pdf')
C21_Witness ==
    /\ matched
    /\ Len(file_list) = 4
    /\ Len(pairs) = 1 /\ pairs[1].framework.id = 3 /\ pairs[1].spo.id = 4
    /\ \E i, k \in 1..Len(others) :
        /\ others[i].id = 1 /\ Bucket(others[i]) = "framework"
        /\ others[k].id = 5 /\ Bucket(others[k]) = "spo"

\* the place of the file f in the input of match_pairs
Pos(f) == CHOOSE i \in 1..Len(file_list) : file_list[i] = f

\* the SPO files not yet used when the framework f is handled: those that no
\* framework before f in the input took
UnusedFor(f) ==
    {s \in InputFiles :
        /\ Bucket(s) = "spo"
        /\ \A j \in 1..Len(pairs) : Pos(pairs[j].framework) < Pos(f) => pairs[j].spo # s}

\* C22: match_pairs handles frameworks in input order and pairs each one with
\* an SPO whose score is maximal among the SPO files not yet used when that
\* framework is handled, the first such SPO in input order on equal scores; an
\* SPO of lower score is never chosen while an unused SPO of higher score exists.
C22_BestUnusedSpoFirstOnTies ==
    matched =>
        /\ \A i, k \in 1..Len(pairs) :
            i < k => Pos(pairs[i].framework) < Pos(pairs[k].framework)
        /\ \A k \in 1..Len(pairs) :
            /\ pairs[k].spo \in UnusedFor(pairs[k].framework)
            /\ \A s \in UnusedFor(pairs[k].framework) :
                LET other == Score(Lower(pairs[k].framework.name), Lower(s.name))
                IN  /\ ~Gt(other, PairScore(pairs[k]))
                    /\ FracEq(other, PairScore(pairs[k])) => Pos(pairs[k].spo) <= Pos(s)

\* 'framework.pdf' and two files named 'spo.pdf', which score the same: it is
\* paired with the one that comes first in the input, here the file with the
\* larger id
C22_Witness ==
    /\ matched
    /\ Len(pairs) = 1
    /\ pairs[1].framework.id = 3 /\ pairs[1].spo.id = 5
    /\ \E i \in 1..Len(others) :
        /\ others[i].id = 4
        /\ Pos(pairs[1].spo) < Pos(others[i])
        /\ FracEq(Score(Lower(pairs[1].framework.name), Lower(others[i].name)),
                  PairScore(pairs[1]))

\* the two names agree on their first n characters
SameStart(a, b, n) == Len(a) >= n /\ Len(b) >= n /\ SubSeq(a, 1, n) = SubSeq(b, 1, n)

PlusHalf(r) == Frac(2 * r.num + r.den, 2 * r.den)

\* C23: the matching score of a (framework, spo) name pair equals the
\* similarity ratio plus exactly 0.5 when the two lower-cased names share a
\* common leading substring of more than 3 characters, and equals the ratio
\* alone when the common leading substring has 3 characters or fewer.
C23_PrefixBonusIsHalf ==
    matched =>
        \A a \in {Lower(f.name) : f \in {x \in InputFiles : Bucket(x) = "framework"}} :
            \A b \in {Lower(s.name) : s \in {x \in InputFiles : Bucket(x) = "spo"}} :
                IF SameStart(a, b, 4)
                THEN FracEq(Score(a, b), PlusHalf(RatioOf(a, b)))
                ELSE FracEq(Score(a, b), RatioOf(a, b))

\* 'Acme_Framework.pdf' with 'acme_spo.pdf' (leading 'acme_' once lower-cased:
\* the bonus lifts the score above 1) and with 'Acm_SPO.pdf' (leading 'acm', 3
\* characters: no bonus); the framework is paired with the first
C23_Witness ==
    /\ matched
    /\ Len(pairs) = 1 /\ pairs[1].framework.id = 1 /\ pairs[1].spo.id = 2
    /\ Gt(PairScore(pairs[1]), Frac(1, 1))
    /\ \E i \in 1..Len(others) :
        /\ others[i].id = 8
        /\ Pos(others[i]) < Pos(pairs[1].spo)
        /\ SameStart(Lower(others[i].name), Lower(pairs[1].framework.name), 3)
        /\ ~SameStart(Lower(others[i].name), Lower(pairs[1].framework.name), 4)
        /\ Gt(Frac(1, 1), Score(Lower(pairs[1].framework.name), Lower(others[i].name)))

---------------------------------------------------------------------------
(* Properties of the folder scan (specification SpecFind) *)

\* the listed name is a PDF that the strict framework rule takes
IsFrameworkFile(f) == EndsWithPdf(Lower(f)) /\ StrictFramework(Lower(f))
\* the listed name is a PDF that the SPO rule takes
IsSpoFile(f) == EndsWithPdf(Lower(f)) /\ ~StrictFramework(Lower(f)) /\ SpoDetection(Lower(f))
Listed == {listing[i] : i \in 1..Len(listing)}

\* C24: find_pdf_pair (and find_framework_and_spo_pdfs) returns the file
\* matching the framework pattern as framework and the file matching the SPO
\* pattern as SPO when both exist; the two-PDF fallback is taken only when
\* neither strict rule matched, so a file that matched a strict rule is never
\* returned in the other role.
C24_StrictMatchKeepsItsRole ==
    finder # "none" =>
        /\ (\E f \in Listed : IsFrameworkFile(f)) /\ (\E f \in Listed : IsSpoFile(f))
            => IsFrameworkFile(pdf_pair.framework) /\ IsSpoFile(pdf_pair.spo)
        /\ pdf_pair.framework \in Listed => ~IsSpoFile(pdf_pair.framework)
        /\ pdf_pair.spo \in Listed => ~IsFrameworkFile(pdf_pair.spo)

---------------------------------------------------------------------------
(* Properties of chunk_text (specifications SpecChunk and SpecChunkFair) *)

\* chunkSize >= 1 and 0 <= overlap < chunkSize
Precondition == chunk_size >= 1 /\ 0 <= overlap /\ overlap < chunk_size

\* the characters of the text from offset starts[k], chunk_size of them or as
\* many as the text has left
WindowOf(k) ==
    [j \in 1..(Min(starts[k] + chunk_size, Len(text)) - starts[k]) |-> text[starts[k] + j]]

\* c is w without a run of whitespace at its start and one at its end, and
\* neither starts nor ends with whitespace
IsStripOf(c, w) ==
    /\ \E a \in 0..Len(w) :
        /\ a + Len(c) <= Len(w)
        /\ \A j \in 1..a : w[j] \in Whitespace
        /\ \A j \in 1..Len(c) : c[j] = w[a + j]
        /\ \A j \in (a + Len(c) + 1)..Len(w) : w[j] \in Whitespace
    /\ c # <<>> => c[1] \notin Whitespace /\ c[Len(c)] \notin Whitespace

\* C25: for chunkSize >= 1 and 0 <= overlap < chunkSize the windows of
\* chunk_text start at offsets 0, step, 2*step, ... with step = chunkSize -
\* overlap, every character index of the text lies in at least one window, and
\* each returned chunk is its window's text with leading and trailing
\* whitespace removed.
C25_WindowsCoverTheText ==
    Precondition =>
        /\ Len(chunks) = Len(starts)
        /\ \A k \in 1..Len(starts) : starts[k] = (k - 1) * (chunk_size - overlap)
        /\ \A k \in 1..Len(chunks) : IsStripOf(chunks[k], WindowOf(k))
        /\ cpc = "returned" =>
            \A at \in 0..(Len(text) - 1) :
                \E k \in 1..Len(starts) : starts[k] <= at /\ at < starts[k] + chunk_size

\* a text of 4 characters cut with chunk_size 3 and overlap 1: windows at 0 and
\* 2, the second of one character less, and a chunk that lost whitespace
C25_Witness ==
    /\ cpc = "returned"
    /\ Len(text) = 4 /\ chunk_size = 3 /\ overlap = 1
    /\ starts = <<0, 2>>
    /\ Len(WindowOf(2)) = 2
    /\ \E k \in 1..2 : chunks[k] # <<>> /\ Len(chunks[k]) < Len(WindowOf(k))

CeilDiv(a, b) == (a + b - 1) \div b

\* C26: for every non-empty text and chunkSize >= 1, 0 <= overlap < chunkSize,
\* chunk_text terminates and returns a number of chunks within 1 of
\* ceil(len(T) / (chunkSize - overlap)).
C26_TerminatesWithCeilChunks ==
    /\ (Precondition => <>(cpc = "returned"))
    /\ [](Precondition /\ cpc = "returned" /\ text # <<>> =>
            /\ Len(chunks) <= CeilDiv(Len(text), chunk_size - overlap) + 1
            /\ Len(chunks) >= CeilDiv(Len(text), chunk_size - overlap) - 1)

\* 4 characters, chunk_size 3, overlap 2: step 1 and 4 chunks
C26_Witness ==
    /\ cpc = "returned"
    /\ Len(text) = 4 /\ chunk_size = 3 /\ overlap = 2
    /\ Len(chunks) = 4

\* C40 as claimed: chunk_text terminates for every text and every pair
\* (chunk_size, overlap), overlap >= chunk_size included.  The loop ends only by
\* i reaching len(text) and i changes by the same step in every pass, so it
\* terminates exactly when a pass leaves i beyond the start of the window it cut.
C40_EveryPassMovesForward ==
    (cpc = "loop" /\ starts # <<>>) => ci > starts[Len(starts)]

\* C40 (amended): chunk_text terminates for the empty text whatever the pair is,
\* and for a non-empty text exactly when overlap < chunk_size; with
\* overlap >= chunk_size the loop over a non-empty text never ends.
C40_TerminatesIffStepPositive ==
    /\ (text = <<>> \/ overlap < chunk_size) => <>(cpc = "returned")
    /\ []((text # <<>> /\ overlap >= chunk_size) => cpc # "returned")

\* 4 characters, chunk_size 2, overlap 2: step 0, window after window from 0
C40_Witness ==
    /\ cpc = "loop" /\ ci = 0
    /\ Len(text) = 4 /\ chunk_size = 2 /\ overlap = 2
    /\ Len(chunks) = 5
    /\ \A w \in 1..5 : starts[w] = 0

---------------------------------------------------------------------------
(* Properties of extract_chunks_from_two_pdfs (specification SpecExtract) *)

\* the document has no page, or only pages without extractable text
NoText(doc) == \A p \in 1..Len(doc) : doc[p] = <<>>

ChunksOf(source) == {i \in 1..Len(all_chunks) : all_chunks[i].source = source}

\* C27: chunk_text returns the empty list for the empty text whatever
\* chunkSize and overlap are, and extract_chunks_from_two_pdfs yields no chunk
\* of a role whose document has zero pages or only pages without extractable
\* text.
C27_NoTextNoChunks ==
    /\ cpc = "returned" /\ text = <<>> => chunks = <<>>
    /\ \A source \in {"framework", "spo"} :
        NoText(documents[source]) => ChunksOf(source) = {}

\* a framework document of two pages without text and an SPO document with
\* text, split with the setting (0, 2): chunk_text has returned for both
\* pages of the framework document
C27_Witness ==
    /\ Len(documents.framework) = 2 /\ NoText(documents.framework)
    /\ ~NoText(documents.spo)
    /\ chunk_size = 0 /\ overlap = 2
    /\ role = "spo" /\ page_no = 0
    /\ all_chunks = <<>>

\* C28: in the list returned by extract_chunks_from_two_pdfs every framework
\* chunk precedes every SPO chunk; within one role the chunks are ordered by
\* page then by chunk_index; page numbers start at 1; and the chunk_index
\* values of one page are exactly 1..n without gap or repeat.
C28_ChunksInDocumentOrder ==
    /\ \A i, k \in 1..Len(all_chunks) :
        i < k =>
            /\ ~(all_chunks[i].source = "spo" /\ all_chunks[k].source = "framework")
            /\ all_chunks[i].source = all_chunks[k].source =>
                \/ all_chunks[i].page < all_chunks[k].page
                \/ /\ all_chunks[i].page = all_chunks[k].page
                   /\ all_chunks[i].chunk_index < all_chunks[k].chunk_index
    /\ \A i \in 1..Len(all_chunks) :
        /\ all_chunks[i].page \in 1..Len(documents[all_chunks[i].source])
        /\ documents[all_chunks[i].source][all_chunks[i].page] # <<>>
        /\ {all_chunks[k].chunk_index :
                k \in {j \in ChunksOf(all_chunks[i].source) : all_chunks[j].page = all_chunks[i].page}}
           = 1..Cardinality({j \in ChunksOf(all_chunks[i].source) :
                                all_chunks[j].page = all_chunks[i].page})

\* both documents gave chunks, one page gave more than one, and a first page
\* without text left the second page its number 2
C28_Witness ==
    /\ epc = "returned"
    /\ ChunksOf("framework") # {} /\ ChunksOf("spo") # {}
    /\ \E i \in 1..Len(all_chunks) : all_chunks[i].chunk_index = 2
    /\ documents.spo[1] = <<>>
    /\ \E i \in ChunksOf("spo") : all_chunks[i].page = 2

---------------------------------------------------------------------------
(* Properties of retrieve_top_k (specification SpecIndex) *)

Returned_idx == {top_idx[a] : a \in 1..Len(top_idx)}
PositiveTexts == {i \in 0..(Len(sims) - 1) : sims[i + 1] > 0}

\* C29: retrieve_top_k never returns an index whose similarity to the query
\* is <= 0, also when fewer than k chunks have positive similarity (the result
\* is then shorter than k), and it returns the empty list for an index built
\* from an empty chunk set.
C29_OnlyPositiveSimilarity ==
    qpc = "returned" =>
        /\ \A i \in Returned_idx : i \in 0..(Len(sims) - 1) /\ sims[i + 1] > 0
        /\ Cardinality(PositiveTexts) < top_k => Len(top_idx) < top_k
        /\ index_texts = <<>> => top_idx = <<>>

\* three texts of which one shares a term with the query, and k = 3: the one
\* index is returned, the two texts of similarity 0 are not
C29_Witness ==
    /\ qpc = "returned"
    /\ Len(index_texts) = 3 /\ top_k = 3
    /\ Cardinality(PositiveTexts) = 1
    /\ Len(top_idx) = 1

\* C30: retrieve_top_k returns at most k pairwise distinct indices in
\* non-increasing order of similarity; no chunk left out has a similarity
\* strictly greater than a returned chunk, and when fewer than k indices are
\* returned, every chunk with positive similarity is among them.
C30_TopKByFallingSimilarity ==
    qpc = "returned" =>
        /\ Len(top_idx) <= top_k
        /\ \A a, b \in 1..Len(top_idx) : a # b => top_idx[a] # top_idx[b]
        /\ \A a, b \in 1..Len(top_idx) : a < b => sims[top_idx[a] + 1] >= sims[top_idx[b] + 1]
        /\ \A i \in Returned_idx :
            \A j \in (0..(Len(sims) - 1)) \ Returned_idx : sims[j + 1] <= sims[i + 1]
        /\ Len(top_idx) < top_k => PositiveTexts \subseteq Returned_idx

\* three texts of positive similarity, one above the two others, and k = 2:
\* the most similar text, which is not the first text, comes first, and of the
\* two texts of equal similarity one is returned and one is left out
C30_Witness ==
    /\ qpc = "returned"
    /\ Len(index_texts) = 3 /\ top_k = 2
    /\ Cardinality(PositiveTexts) = 3
    /\ Len(top_idx) = 2
    /\ top_idx[1] # 0
    /\ sims[top_idx[1] + 1] > sims[top_idx[2] + 1]
    /\ \E j \in 0..2 : j \notin Returned_idx /\ sims[j + 1] = sims[top_idx[2] + 1]

---------------------------------------------------------------------------
(* The merged document (specification SpecTablePath) *)

\* the part of a document in the merged one from place first on: its label
\* page, then its table-bearing pages in the order of the original
PartAt(doc, first, label, src, pages) ==
    /\ doc[first] = LabelPage(label)
    /\ \A i \in 1..Len(pages) : doc[first + i] = SourcePage(src, pages[i])
    /\ \A i \in 1..Len(pages) : \A j \in 1..Len(pages) : i < j => pages[i] < pages[j]

\* C36: the merged document is one 'Framework PDF' label page and the framework's
\* table-bearing pages in original page order, when the framework has any, then
\* one 'Second Party Opinion / SPO' label page and the SPO's table-bearing pages
\* in original page order, when the SPO has any; no label page stands for a
\* document that contributed no page.
C36_MergedDocumentIsLabelledParts ==
    tmpExists /\ tpc = "ocr" =>
        LET nf == IF fw_pages = <<>> THEN 0 ELSE 1 + Len(fw_pages)
            ns == IF spo_pages = <<>> THEN 0 ELSE 1 + Len(spo_pages)
        IN  /\ Len(merged_pdf) = nf + ns
            /\ nf > 0 => PartAt(merged_pdf, 1, "Framework PDF", "framework", fw_pages)
            /\ ns > 0 => PartAt(merged_pdf, nf + 1, "Second Party Opinion / SPO", "spo",
                                spo_pages)
            /\ \A i \in 1..Len(merged_pdf) :
                  merged_pdf[i].src = "label" =>
                      /\ i < Len(merged_pdf)
                      /\ merged_pdf[i + 1].src =
                            (IF merged_pdf[i].label = "Framework PDF" THEN "framework"
                             ELSE "spo")

C36_Witness ==
    /\ tmpExists /\ tpc = "ocr"
    /\ fw_pages = <<0, 1>> /\ spo_pages = <<1>>
    /\ Len(merged_pdf) = 5
    /\ merged_pdf[4] = LabelPage("Second Party Opinion / SPO")

---------------------------------------------------------------------------
(* Properties of the JSON recovery (specification SpecRecover) *)

\* C31: for every raw response, the JSON recovery step of parse_with_llm_openai
\* and of parser_for_table returns a JSON value and raises no exception.
C31_RecoveryAlwaysReturnsJson ==
    recoverer # "none" => jout = "returned" /\ returned # None

Openers == {"{", "["}
Closer(c) == IF c = "{" THEN "}" ELSE "]"
Brackets == {"{", "}", "[", "]"}

\* the places where an opening brace or bracket stands with its closing one
\* somewhere after it
OpenPlaces(t) ==
    {p \in 1..Len(t) : t[p] \in Openers /\ \E q \in (p + 1)..Len(t) : t[q] = Closer(t[p])}

\* the span from the first such place to the last closing one of its kind
GreedySpan(t) ==
    LET p == CHOOSE x \in OpenPlaces(t) : \A y \in OpenPlaces(t) : x <= y
        q == CHOOSE x \in (p + 1)..Len(t) :
                 t[x] = Closer(t[p]) /\ \A y \in (x + 1)..Len(t) : t[y] # Closer(t[p])
    IN  SubSeq(t, p, q)

\* the three stages, as a function of the text
ThreeStages(t) ==
    IF IsJson(t) THEN JsonValue(t)
    ELSE IF OpenPlaces(t) # {} /\ IsJson(GreedySpan(t)) THEN JsonValue(GreedySpan(t))
    ELSE Member("_raw", t)

\* the text is one JSON object with prose free of braces and brackets around it
ObjectsInProse(t) ==
    {SubSeq(t, p[1], p[2]) : p \in
        {r \in (1..Len(t)) \X (1..Len(t)) :
            /\ r[1] < r[2] /\ r[2] - r[1] + 1 < Len(t)
            /\ t[r[1]] = "{" /\ IsJson(SubSeq(t, r[1], r[2]))
            /\ \A x \in (1..(r[1] - 1)) \cup ((r[2] + 1)..Len(t)) : t[x] \notin Brackets}}

NoBrackets(t) == \A x \in 1..Len(t) : t[x] \notin Brackets

\* C32 as stated: the recovery is the three-stage function of the text; one
\* JSON object in prose without braces yields the object; every text without
\* braces or brackets yields {"_raw": text}.
C32_ThreeStagesAndEveryBareTextRaw ==
    recoverer # "none" /\ content # None =>
        /\ jout = "returned"
        /\ recovered = ThreeStages(content)
        /\ \A o \in ObjectsInProse(content) : recovered = JsonValue(o)
        /\ NoBrackets(content) => recovered = Member("_raw", content)

\* C32 (amended): the recovery is the three-stage function of the text; one JSON
\* object in prose without braces or brackets yields the object; a text without
\* braces or brackets yields {"_raw": text} unless the text itself is JSON (a bare
\* scalar), which yields the direct parse.
C32_ThreeStagesOfTheText ==
    recoverer # "none" /\ content # None =>
        /\ jout = "returned"
        /\ recovered = ThreeStages(content)
        /\ \A o \in ObjectsInProse(content) : recovered = JsonValue(o)
        /\ NoBrackets(content) =>
              recovered = IF IsJson(content) THEN JsonValue(content)
                          ELSE Member("_raw", content)

C32_Witness ==
    /\ recoverer = "parser_for_table"
    /\ content = <<"w", "{", "k", "1", "}">>
    /\ recovered = JsonValue(<<"{", "k", "1", "}">>)
    /\ returned = recovered

---------------------------------------------------------------------------
(* Properties of the accumulator calls (specification SpecCalls) *)

OverviewFields ==
    <<"Issuer", "Framework Name", "SPO Provider", "Alignment", "Year", "SPO Date",
      "Framework Source">>
GovernanceFields == <<"Exclusion Criteria", "Impact Reporting", "External Verification">>

\* the cell of a recognized field: its value in the result, the empty string
\* when the key is absent or maps to null
ValueOrEmpty(d, key) == IF key \in DOMAIN d /\ d[key] # None THEN d[key] ELSE EmptyStr

LastRow(rows) == rows[MaxRow(rows)]

\* the file as the call's _init_workbook leaves it, before the call's own rows
Initialised ==
    IF lastCall'.fn = "write_to_excel" THEN writer_init_workbook(File).ws
    ELSE table_init_workbook(File).ws

\* the rows that were in the sheet are still there; an SPO write overwrites the
\* provider and the date of the last Overview row in place
EarlierRowsKept(before, after, s) ==
    \A r \in 1..Len(before) :
        \/ r <= Len(after) /\ after[r] = before[r]
        \/ /\ s = FO /\ r = MaxRow(before) /\ r >= 2 /\ r <= Len(after)
           /\ lastCall'.fn = "write_to_excel" /\ lastCall'.run_for = "spo"
           /\ \A c \in 1..Len(before[r]) : c \notin {4, 7} => after[r][c] = before[r][c]

\* C35: each accumulator call is atomic with respect to the saved file: when it
\* raises, the saved file has none of the call's rows and no cell overwritten by
\* it; when it returns, the saved file has every row of the earlier calls.
C35_AccumulatorCallIsAtomic ==
    [][ncalls' = ncalls + 1 =>
          IF lastCall'.raised # "none"
          THEN ws' = Initialised
          ELSE \A s \in AllSheets : EarlierRowsKept(Initialised[s], ws'[s], s)]_vars

\* the number of eligibility criteria of all entries together
RECURSIVE CriteriaCount(_)
CriteriaCount(uops) ==
    IF Len(uops) = 0 THEN 0
    ELSE Len(Get(uops[1], "Eligibility_Criteria", <<>>)) + CriteriaCount(Tail(uops))

\* the sheet has its rows before, then n more rows, each tagged with id
AppendedAfter(before, after, n, id) ==
    /\ MaxRow(after) = MaxRow(before) + n
    /\ \A r \in 1..MaxRow(before) : after[r] = before[r]
    /\ \A r \in (MaxRow(before) + 1)..MaxRow(after) : after[r] # <<>> /\ after[r][1] = id

\* C34: a call of writer_to_excel_table with a result of u Use_of_Proceeds entries,
\* entry i with c_i eligibility criteria, appends exactly u rows to 'SDG' and exactly
\* the sum of the c_i rows to 'Eligibility+EU Tax', directly after the rows that
\* were there, each tagged with the one identifier the call allocated.
C34_TableCallAppendsItsRows ==
    [][lastCall'.fn = "writer_to_excel_table" /\ lastCall'.raised = "none"
       /\ ncalls' = ncalls + 1 =>
          LET uops == Get(TableSamples[lastCall'.arg], "Use_of_Proceeds", JArray(<<>>)).items
              before == table_init_workbook(File).ws
              id == lastCall'.framework_id
          IN  /\ id # None
              /\ AppendedAfter(before[SDG], ws'[SDG], Len(uops), id)
              /\ AppendedAfter(before[ELIG], ws'[ELIG], CriteriaCount(uops), id)]_vars

C34_Witness ==
    /\ lastCall.fn = "writer_to_excel_table" /\ lastCall.raised = "none"
    /\ ncalls = 2
    /\ TableSamples[lastCall.arg] = T_two
    /\ lastCall.framework_id = <<"F", "0", "0", "2">>
    /\ MaxRow(ws[SDG]) >= 4

\* C33: the 'Framework Overview' and the 'Governance' row appended by a Framework
\* write have one cell for each recognized field, holding the field's value or the
\* empty string, and none of these cells is null.
C33_FrameworkRowsHaveNoNullCell ==
    lastCall.fn = "write_to_excel" /\ lastCall.run_for = "framework"
    /\ lastCall.raised = "none" =>
        LET d == JsonSamples[lastCall.arg]
            o == LastRow(ws[FO])
            g == LastRow(ws[GOV])
        IN  /\ Len(o) = 1 + Len(OverviewFields)
            /\ Len(g) = 1 + Len(GovernanceFields)
            /\ \A c \in 1..Len(OverviewFields) :
                  o[c + 1] # None /\ o[c + 1] = ValueOrEmpty(d, OverviewFields[c])
            /\ \A c \in 1..Len(GovernanceFields) :
                  g[c + 1] # None /\ g[c + 1] = ValueOrEmpty(d, GovernanceFields[c])


\* a step of SpecCalls is one call; lastCall' describes it
CallStep == ncalls' = ncalls + 1
TextCall(run_for) ==
    CallStep /\ lastCall'.fn = "write_to_excel" /\ lastCall'.run_for = run_for
TableCall == CallStep /\ lastCall'.fn = "writer_to_excel_table"
Returned == lastCall'.raised = "none"
JsonArg == JsonSamples[lastCall'.arg]

F001 == <<"F", "0", "0", "1">>
Suffix(id) == ParseInt(Tail1(id))
LastId(rows) == CellValue(rows, MaxRow(rows), 1)
HasDataRows(rows) == MaxRow(rows) >= 2
Tagged(rows, id) == {r \in 2..Len(rows) : CellValue(rows, r, 1) = id}

\* C2 as claimed: an SPO write that meets an Overview sheet with at least one data
\* row, the last of identifier X, allocates no identifier: it overwrites columns
\* 4 and 7 of that last row with the result's SPO Provider and SPO Date and
\* appends exactly one 'SPO Summary' row tagged X.
C2_SpoOverwritesLastRow ==
    [][(TextCall("spo") /\ Returned /\ FO \in sheetnames /\ HasDataRows(ws[FO])) =>
        LET X == LastId(ws[FO])
            n == MaxRow(ws[FO])
        IN  /\ lastCall'.framework_id = X
            /\ Len(ws'[FO]) = Len(ws[FO])
            /\ CellValue(ws'[FO], n, 1) = X
            /\ CellValue(ws'[FO], n, 4) = Get(JsonArg, "SPO Provider", EmptyStr)
            /\ CellValue(ws'[FO], n, 7) = Get(JsonArg, "SPO Date", EmptyStr)
            /\ ws'[SPO] = Append(ws[SPO], <<X, Get(JsonArg, "Summary", EmptyStr)>>)]_vars

\* C4: after any sequence of calls on a file that did not exist, the identifiers in
\* column 1 of the 'Framework Overview' data rows are strictly increasing in row
\* order (so pairwise distinct), and the identifier a Framework write allocates is
\* the highest suffix of the column plus 1 (1 for a sheet without data rows).
OverviewIncreasing ==
    \A r \in 2..Len(ws[FO]) :
        /\ Suffix(CellValue(ws[FO], r, 1)) >= 1
        /\ r > 2 => Suffix(CellValue(ws[FO], r - 1, 1)) < Suffix(CellValue(ws[FO], r, 1))
HighestSuffix(rows) ==
    IF Len(rows) < 2 THEN 0
    ELSE CHOOSE m \in {Suffix(CellValue(rows, r, 1)) : r \in 2..Len(rows)} :
            \A r \in 2..Len(rows) : Suffix(CellValue(rows, r, 1)) <= m
C4_OverviewIdsIncrease ==
    /\ []OverviewIncreasing
    /\ [][(TextCall("framework") /\ Returned) =>
            /\ Suffix(lastCall'.framework_id) = HighestSuffix(ws[FO]) + 1
            /\ LastId(ws'[FO]) = lastCall'.framework_id]_vars

C4_Witness ==
    /\ Len(ws[FO]) = 3
    /\ Len(ws[SPO]) >= 2
    /\ lastCall.fn = "write_to_excel" /\ lastCall.run_for = "framework"
    /\ lastCall.framework_id = <<"F", "0", "0", "2">>

\* C5 as claimed: the identifier a call of writer_to_excel_table tags its rows with
\* was not used by any earlier call: no row of 'Eligibility+EU Tax' or 'SDG'
\* carried it before the call.
C5_TableIdsFresh ==
    [][(TableCall /\ Returned
        /\ (Len(ws'[ELIG]) > Len(ws[ELIG]) \/ Len(ws'[SDG]) > Len(ws[SDG]))) =>
        /\ Tagged(ws[ELIG], lastCall'.framework_id) = {}
        /\ Tagged(ws[SDG], lastCall'.framework_id) = {}]_vars

\* C7: an SPO write that meets an Overview sheet without data rows (the file new,
\* or the sheet header only) and a Summary that a cell can hold does not raise: its
\* identifier is UNKNOWN, the Overview sheet keeps its cells, and exactly one 'SPO
\* Summary' row tagged UNKNOWN is appended; a Framework write that follows, the
\* Overview sheet still without data rows, receives F001.
C7_OrphanSpo ==
    [][/\ (TextCall("spo") /\ (~fileExists \/ FO \in sheetnames) /\ ~HasDataRows(ws[FO])
           /\ Get(JsonArg, "Summary", EmptyStr) # ListVal) =>
            /\ Returned
            /\ lastCall'.framework_id = UNKNOWN
            /\ ws'[FO] = <<OverviewHeader>>
            /\ fileExists => ws'[FO] = ws[FO]
            /\ ws'[SPO] = Append(IF fileExists THEN ws[SPO] ELSE <<SummaryHeader>>,
                                 <<UNKNOWN, Get(JsonArg, "Summary", EmptyStr)>>)
       /\ (TextCall("framework") /\ Returned /\ Tagged(ws[SPO], UNKNOWN) # {}
           /\ ~HasDataRows(ws[FO])) =>
            /\ lastCall'.framework_id = F001
            /\ ws'[FO] = <<OverviewHeader, OverviewRow(F001, JsonArg)>>]_vars

C7_Witness ==
    /\ lastCall.fn = "write_to_excel" /\ lastCall.run_for = "framework"
    /\ lastCall.framework_id = F001
    /\ Tagged(ws[SPO], UNKNOWN) # {}
    /\ Len(ws[FO]) = 2

\* C9: no call deletes or reorders an existing row of any sheet; a Framework write
\* leaves every existing row and the 'SPO Summary' sheet as they were; an SPO write
\* leaves the Overview row count, the 'Governance' sheet and every Overview cell
\* other than columns 4 and 7 of the last row as they were.
RowsKept(s) ==
    /\ Len(ws'[s]) >= Len(ws[s])
    /\ \A r \in 1..Len(ws[s]) : ws'[s][r] = ws[s][r]
SheetAsBefore(s) == ws'[s] = (IF fileExists THEN ws[s] ELSE <<HeaderOf(s)>>)
C9_RowsMonotonic ==
    [][CallStep =>
        /\ \A s \in AllSheets \ {FO} : RowsKept(s)
        /\ ~(TextCall("spo") /\ Returned) => RowsKept(FO)
        /\ (TextCall("framework") /\ Returned) => SheetAsBefore(SPO)
        /\ (TextCall("spo") /\ Returned) =>
            /\ SheetAsBefore(GOV)
            /\ Len(ws'[FO]) = (IF fileExists THEN Len(ws[FO]) ELSE 1)
            /\ \A r \in 1..Len(ws[FO]) : \A c \in 1..8 :
                (r # MaxRow(ws[FO]) \/ c \notin {4, 7}) =>
                    CellValue(ws'[FO], r, c) = CellValue(ws[FO], r, c)]_vars

C9_Witness ==
    /\ sheetnames = AllSheets
    /\ Len(ws[ELIG]) >= 4 /\ Len(ws[SDG]) >= 3
    /\ Len(ws[FO]) >= 2
    /\ lastCall.fn = "writer_to_excel_table" /\ lastCall.raised = "none"
    /\ lastCall.framework_id = <<"F", "0", "0", "2">>

\* C10: after any sequence of calls on one file each sheet of the file holds its
\* header exactly once, in row 1; a call writes a header to a sheet that existed
\* before the call only when the first row of that sheet was entirely empty.
HeaderRows(s) == {r \in 1..Len(ws[s]) : ws[s][r] = HeaderOf(s)}
HeaderOnce ==
    \A s \in AllSheets :
        IF s \in sheetnames THEN HeaderRows(s) = {1} ELSE ws[s] = <<>>
C10_HeaderOnce ==
    /\ []HeaderOnce
    /\ [][CallStep =>
            \A s \in sheetnames :
                (\E r \in 1..Len(ws'[s]) :
                    ws'[s][r] = HeaderOf(s) /\ (r > Len(ws[s]) \/ ws[s][r] # HeaderOf(s)))
                => FirstRowEmpty(ws[s])]_vars

C10_Witness ==
    /\ sheetnames = AllSheets
    /\ Len(ws[ELIG]) >= 3
    /\ Len(ws[FO]) >= 2
    /\ lastCall.fn = "writer_to_excel_table" /\ lastCall.raised = "none"
    /\ ncalls >= 3

\* C11 as claimed: in every order of calls of write_to_excel and
\* writer_to_excel_table on one output file, the table accumulator creating the
\* file included, a call whose result a sheet can hold completes without error,
\* and once both accumulators have written to the file it holds the five sheets
\* 'Framework Overview', 'Governance', 'SPO Summary', 'Eligibility+EU Tax', 'SDG'.
WritableArg ==
    IF lastCall'.fn = "write_to_excel" THEN lastCall'.arg \in {1, 2, 3, 4}
    ELSE lastCall'.arg \in {1, 2, 3, 4, 5}
BothAccumulatorsCalled ==
    \/ lastCall'.fn = "write_to_excel" /\ ELIG \in sheetnames
    \/ lastCall'.fn = "writer_to_excel_table" /\ FO \in sheetnames
C11_AnyOrderOfAccumulators ==
    [][(CallStep /\ WritableArg) =>
        /\ Returned
        /\ BothAccumulatorsCalled => sheetnames' = AllSheets]_vars

---------------------------------------------------------------------------
(* Properties of the batch loop (specification Spec) *)

IsWrite(e, run_for) == e.fn = "write_to_excel" /\ e.run_for = run_for
Writes(run_for) == {i \in 1..Len(written) : IsWrite(written[i], run_for)}

\* C1 as claimed: with the task list Framework then SPO, for every pair and every
\* outcome of its tasks, an 'SPO Summary' row written for the pair carries the
\* identifier of the 'Framework Overview' row created for the same pair, and the
\* provider/date overwrite lands on that pair's own row, never on a row created
\* for an earlier pair.  (Read in the claim's favour: an SPO write that carries
\* the sentinel UNKNOWN and touches no Overview row is not counted against it.)
C1_SpoLinkedToOwnPair ==
    prompts = <<"framework", "spo">> =>
        \A i \in Writes("spo") :
            /\ \/ \E k \in Writes("framework") :
                    /\ written[k].pair = written[i].pair
                    /\ written[k].framework_id = written[i].framework_id
                    /\ written[k].row = written[i].row
               \/ written[i].framework_id = UNKNOWN /\ written[i].row = 0
            /\ \A k \in Writes("framework") :
                written[k].pair < written[i].pair => written[k].row # written[i].row

\* the text phase of the pair parsed every task (no completion failed)
TextPhaseParsed ==
    /\ phase = "text" /\ phase' = "table"
    /\ ~(Len(errors') > Len(errors) /\ errors'[Len(errors')].e = "APIError")

\* C8 as claimed: whatever the workbook held before, a Framework-role object result
\* followed by an SPO-role object result of one pair adds exactly one 'Framework
\* Overview' row, one 'Governance' row and one 'SPO Summary' row, the three of the
\* same identifier.
C8_OneRowPerSheet ==
    [][(/\ TextPhaseParsed
        /\ prompts = <<"framework", "spo">>
        /\ results'[1].result.kind = "object"
        /\ results'[2].result.kind = "object") =>
        /\ Len(ws'[FO]) = MaxRow(ws[FO]) + 1
        /\ Len(ws'[GOV]) = MaxRow(ws[GOV]) + 1
        /\ Len(ws'[SPO]) = MaxRow(ws[SPO]) + 1
        /\ LastId(ws'[GOV]) = LastId(ws'[FO])
        /\ LastId(ws'[SPO]) = LastId(ws'[FO])]_vars

\* C13 as claimed: when the completion call of one task of a pair fails after all
\* retries, the completion calls of the pair's remaining tasks are still made and
\* the object results of the pair's other tasks are still written to the
\* spreadsheet.
TextPhaseStep == phase = "text" /\ phase' = "table"
CompletionFailed == \E i \in 1..Len(executed') : executed'[i].kind = "failed"
WrittenInStep(run_for) ==
    \E k \in (Len(written) + 1)..Len(written') :
        written'[k].pair = idx /\ IsWrite(written'[k], run_for)
C13_TaskFailureIsolated ==
    [][(TextPhaseStep /\ CompletionFailed) =>
        /\ Len(executed') = Len(prompts)
        /\ \A i \in 1..Len(executed') :
            (executed'[i].kind = "object" /\ prompts[i] # "both") =>
                WrittenInStep(prompts[i])]_vars

\* C39: within one batch the identifier a pair receives in the Overview namespace
\* (its 'Framework Overview' row) equals the identifier tagged on the pair's rows
\* in the table namespace ('Eligibility+EU Tax' and 'SDG'), whatever the outcomes
\* of the pairs (text path failed, no table pages, table path failed, result
\* without criteria).
C39_SameIdentifierInBothNamespaces ==
    \A i \in 1..Len(written) : \A j \in 1..Len(written) :
        (/\ written[i].pair = written[j].pair
         /\ IsWrite(written[i], "framework")
         /\ written[j].fn = "writer_to_excel_table") =>
            written[i].framework_id = written[j].framework_id

\* a result the claim speaks of: one that is no object, or whose run_for is
\* neither "framework" nor "spo"
Framed(r) == r.result.kind # "object" \/ r.run_for \notin {"framework", "spo"}
NotFramed(r) == ~Framed(r)

\* the pair's results without those
Effective(rs) == SelectSeq(rs, NotFramed)

\* the write loop called write_to_excel for a result of another run_for
OtherRunForWritten(rs, w) ==
    /\ w.raised = "none"
    /\ \E i \in 1..Len(rs) : rs[i].result.kind = "object" /\ Framed(rs[i])

\* no entry the step logged for such a result carries a new identifier: it is
\* UNKNOWN or the identifier of a row the Overview sheet has
NoIdentifierAllocated ==
    \A e \in (Len(written) + 1)..Len(written') :
        written'[e].run_for \notin {"framework", "spo"} =>
            \/ written'[e].framework_id = UNKNOWN
            \/ Tagged(ws'[FO], written'[e].framework_id) # {}

\* C37 as claimed: a task result that is no object, or whose run_for is neither
\* "framework" nor "spo", changes no row and no cell of the spreadsheet and
\* allocates no identifier: the file after the pair's write loop is the file the
\* loop over the pair's other results gives.
C37_FramedResultsChangeNothing ==
    [][(TextPhaseStep /\ ~CompletionFailed) =>
          LET w == WriteResults(File, Effective(results'), 1, written, idx)
          IN  /\ fileExists' = w.file.fileExists
              /\ sheetnames' = w.file.sheetnames
              /\ ws' = w.file.ws
              /\ NoIdentifierAllocated]_vars

\* C37 (amended): such a result changes no row and no cell of an existing
\* spreadsheet and allocates no identifier; an object result of another run_for
\* still has write_to_excel initialise the workbook, which creates the file with
\* its three header rows when there is none.
C37_FramedResultsOnlyInitialise ==
    [][(TextPhaseStep /\ ~CompletionFailed) =>
          LET w == WriteResults(File, Effective(results'), 1, written, idx)
              after == IF OtherRunForWritten(results', w)
                       THEN writer_init_workbook(w.file) ELSE w.file
          IN  /\ fileExists' = after.fileExists
              /\ sheetnames' = after.sheetnames
              /\ ws' = after.ws
              /\ fileExists => ws' = w.file.ws
              /\ NoIdentifierAllocated]_vars

C37_Witness ==
    /\ phase = "table" /\ idx = 2
    /\ prompts = <<"framework", "both">>
    /\ Len(results) = 2
    /\ results[1].result.kind = "object" /\ results[2].result.kind = "object"
    /\ Len(written) = 3
    /\ written[3].run_for = "both" /\ written[3].framework_id = <<"F", "0", "0", "1">>
    /\ Len(ws[FO]) = 2

====
